---- MODULE Spec2Model ----
(***************************************************************************)
(* A model of oauth1-request: the streaming serializers (the Authorizer   *)
(* that renders the OAuth 1.0 Authorization header and the Urlencoder     *)
(* that renders a query or form string), the PLAINTEXT signature method   *)
(* and the call protocol that a Request drives them with.                  *)
(*                                                                         *)
(* Text is a sequence of one-character strings, so that byte order,       *)
(* percent-encoding and the delimiters written into the outputs are       *)
(* computed rather than assumed.                                           *)
(***************************************************************************)
EXTENDS Integers, Sequences, FiniteSets, TLC

\* ------------------------------------------------------------------ text

\* The double-quote character that wraps a value in the header.
DQ == "DQUOTE"

\* The printable ASCII characters, in byte order; Ascii[i] has byte i + 31.
\* (The double quote, the backslash and the backtick are written by name.)
Ascii ==
    << " ", "!", DQ, "#", "$", "%", "&", "'", "(", ")", "*", "+", ",", "-", ".", "/",
       "0", "1", "2", "3", "4", "5", "6", "7", "8", "9", ":", ";", "<", "=", ">", "?",
       "@", "A", "B", "C", "D", "E", "F", "G", "H", "I", "J", "K", "L", "M", "N", "O",
       "P", "Q", "R", "S", "T", "U", "V", "W", "X", "Y", "Z", "[", "BACKSLASH", "]", "^", "_",
       "BACKTICK", "a", "b", "c", "d", "e", "f", "g", "h", "i", "j", "k", "l", "m", "n", "o",
       "p", "q", "r", "s", "t", "u", "v", "w", "x", "y", "z", "{", "|", "}", "~" >>

\* The byte of a character.
ByteOf ==
    [c \in {Ascii[i] : i \in DOMAIN Ascii} |-> 31 + CHOOSE i \in DOMAIN Ascii : Ascii[i] = c]

HexDigits ==
    << "0", "1", "2", "3", "4", "5", "6", "7", "8", "9", "A", "B", "C", "D", "E", "F" >>

\* RFC 3986 unreserved characters: A-Z a-z 0-9 - . _ ~
Unreserved ==
    {Ascii[i] : i \in 34..59} \cup {Ascii[i] : i \in 66..91} \cup {Ascii[i] : i \in 17..26}
        \cup {"-", ".", "_", "~"}

\* One byte as the encoder writes it: itself when unreserved, else %XX in
\* uppercase hexadecimal.
EncodeByte(c) ==
    IF c \in Unreserved
    THEN <<c>>
    ELSE <<"%", HexDigits[(ByteOf[c] \div 16) + 1], HexDigits[(ByteOf[c] % 16) + 1]>>

RECURSIVE PercentEncode(_)
PercentEncode(s) ==
    IF s = <<>> THEN <<>> ELSE EncodeByte(Head(s)) \o PercentEncode(Tail(s))

\* Byte-wise (dictionary) order of two texts, as the comparison of str in Rust.
RECURSIVE StrLess(_, _)
StrLess(a, b) ==
    IF b = <<>> THEN FALSE
    ELSE IF a = <<>> THEN TRUE
    ELSE IF ByteOf[Head(a)] # ByteOf[Head(b)] THEN ByteOf[Head(a)] < ByteOf[Head(b)]
    ELSE StrLess(Tail(a), Tail(b))

StrLeq(a, b) == ~StrLess(b, a)

\* Decimal rendering of an unsigned integer (Display for u64).
RECURSIVE Decimal(_)
Decimal(n) ==
    IF n < 10 THEN <<HexDigits[n + 1]>> ELSE Decimal(n \div 10) \o <<HexDigits[(n % 10) + 1]>>

\* Option<T>
None == [some |-> FALSE, val |-> <<>>]
Some(x) == [some |-> TRUE, val |-> x]


\* ---------------------------------------------------------- literal texts

OAuthPrefix == <<"O", "A", "u", "t", "h", " ">>
oauth_callback == <<"o", "a", "u", "t", "h", "_", "c", "a", "l", "l", "b", "a", "c", "k">>
oauth_consumer_key ==
    <<"o", "a", "u", "t", "h", "_", "c", "o", "n", "s", "u", "m", "e", "r", "_", "k", "e", "y">>
oauth_nonce == <<"o", "a", "u", "t", "h", "_", "n", "o", "n", "c", "e">>
oauth_signature ==
    <<"o", "a", "u", "t", "h", "_", "s", "i", "g", "n", "a", "t", "u", "r", "e">>
oauth_signature_method == oauth_signature \o <<"_", "m", "e", "t", "h", "o", "d">>
oauth_timestamp == <<"o", "a", "u", "t", "h", "_", "t", "i", "m", "e", "s", "t", "a", "m", "p">>
oauth_token == <<"o", "a", "u", "t", "h", "_", "t", "o", "k", "e", "n">>
oauth_verifier == <<"o", "a", "u", "t", "h", "_", "v", "e", "r", "i", "f", "i", "e", "r">>
oauth_version == <<"o", "a", "u", "t", "h", "_", "v", "e", "r", "s", "i", "o", "n">>
VersionValue == <<"1", ".", "0">>

\* ------------------------------------------------------ signature methods

\* The signing key: encode(client_secret) "&" encode(token_secret or empty).
write_signing_key(client_secret, token_secret) ==
    PercentEncode(client_secret) \o <<"&">>
        \o (IF token_secret.some THEN PercentEncode(token_secret.val) ELSE <<>>)

\* Plaintext::sign_with. A signature method value carries the two policy
\* flags of its Sign (use_nonce, use_timestamp); the built-in PLAINTEXT
\* keeps both.
Plaintext_sign_with(method, client_secret, token_secret) ==
    [ signing_key |-> write_signing_key(client_secret, token_secret),
      use_nonce |-> method.use_nonce,
      use_timestamp |-> method.use_timestamp ]

PlaintextSign_get_signature_method_name ==
    <<"P", "L", "A", "I", "N", "T", "E", "X", "T">>

PlaintextSign_request_method(s, method) == s

PlaintextSign_uri(s, uri) == s

\* A parameter() that folds the key into the signing key.
parameter_into_key(s, key, value) == [s EXCEPT !.signing_key = @ \o key]

PlaintextSign_parameter(s, key, value) == s

PlaintextSign_delimiter(s) == s

PlaintextSign_end(s) == s.signing_key

\* Sign::use_nonce / Sign::use_timestamp: true unless the method overrides.
Sign_use_nonce(s) == s.use_nonce
Sign_use_timestamp(s) == s.use_timestamp

\* The built-in PLAINTEXT, and a PLAINTEXT that uses the licence of RFC 5849
\* section 3.1 to drop oauth_nonce and oauth_timestamp.
Plaintext == [use_nonce |-> TRUE, use_timestamp |-> TRUE]
PlaintextBare == [use_nonce |-> FALSE, use_timestamp |-> FALSE]

\* InspectSign: a Sign that records each call it receives and forwards it.
SignCall(op, k, v) == [op |-> op, k |-> k, v |-> v]

Inspect_sign_with(method, cs, ts) ==
    [inner |-> Plaintext_sign_with(method, cs, ts), log |-> <<>>]

InspectSign_request_method(s, method) ==
    [ inner |-> PlaintextSign_request_method(s.inner, method),
      log |-> Append(s.log, SignCall("request_method", method, <<>>)) ]

InspectSign_uri(s, uri) ==
    [ inner |-> PlaintextSign_uri(s.inner, uri),
      log |-> Append(s.log, SignCall("uri", uri, <<>>)) ]

InspectSign_delimiter(s) ==
    [ inner |-> PlaintextSign_delimiter(s.inner),
      log |-> Append(s.log, SignCall("delimiter", <<>>, <<>>)) ]

InspectSign_parameter(s, k, v) ==
    [ inner |-> PlaintextSign_parameter(s.inner, k, v),
      log |-> Append(s.log, SignCall("parameter", k, v)) ]

\* end() consumes the Sign; the record of the call is kept with the result.
InspectSign_end(s) ==
    [ signature |-> PlaintextSign_end(s.inner),
      log |-> Append(s.log, SignCall("end", <<>>, <<>>)) ]


\* ------------------------------------------------------------------ state

VARIABLES
    debug,      \* whether the build has debug assertions (cfg(debug_assertions))
    client,     \* client credentials {identifier, secret}
    token,      \* Option of token credentials
    options,    \* auth::Options {callback, nonce, timestamp, verifier, version}
    auth,       \* the Authorizer in flight
    url,        \* the Urlencoder in flight {data, next_append}
    sign,       \* a Sign driven directly by its caller
    ctor,       \* how the serializer was constructed {kind, uri}
    calls,      \* the calls the driver has made on the serializer, in order
    output,     \* Option of the value end() returned
    pc          \* where the driver is

vars == <<debug, client, token, options, auth, url, sign, ctor, calls, output, pc>>

\* A serializer call as the driver makes it.
Call(op, k, v) == [op |-> op, k |-> k, v |-> v]

\* The hooks, in the order the aggregate invokes them.
HookOrder ==
    << "serialize_oauth_callback", "serialize_oauth_consumer_key", "serialize_oauth_nonce",
       "serialize_oauth_signature_method", "serialize_oauth_timestamp",
       "serialize_oauth_token", "serialize_oauth_verifier", "serialize_oauth_version" >>

\* -------------------------------------------------------------- Authorizer

MisorderMessage == "appended key is less than previously appended one in dictionary order"

NoPanic == [msg |-> "", previous |-> <<>>, current |-> <<>>]

\* An Authorizer constructor that generates a nonce even when one is given.
Authorizer_new_fresh_nonce(method, http_method, uri, cl, tok, opt, fresh_nonce, now) ==
    [ header |-> OAuthPrefix,
      prev_key |-> <<>>,
      sign |-> InspectSign_uri(
                   InspectSign_request_method(
                       Inspect_sign_with(method, cl.secret,
                                         IF tok.some THEN Some(tok.val.secret) ELSE None),
                       http_method),
                   uri),
      client |-> cl,
      token |-> tok,
      options |-> opt,
      nonce |-> fresh_nonce,
      timestamp |-> IF opt.timestamp.some THEN opt.timestamp.val ELSE now,
      panicked |-> FALSE,
      panic |-> NoPanic,
      hooks |-> <<>> ]

\* Authorizer::with_signature_method: obtains the Sign, feeds it the method
\* and the URI, starts the header at "OAuth " with an empty previous key and
\* resolves the nonce and the timestamp; it keeps the credentials and the
\* options it borrows.
Authorizer_new(method, http_method, uri, cl, tok, opt, fresh_nonce, now) ==
    [ header |-> OAuthPrefix,
      prev_key |-> <<>>,
      sign |-> InspectSign_uri(
                   InspectSign_request_method(
                       Inspect_sign_with(method, cl.secret,
                                         IF tok.some THEN Some(tok.val.secret) ELSE None),
                       http_method),
                   uri),
      client |-> cl,
      token |-> tok,
      options |-> opt,
      nonce |-> IF opt.nonce.some THEN opt.nonce.val ELSE fresh_nonce,
      timestamp |-> IF opt.timestamp.some THEN opt.timestamp.val ELSE now,
      panicked |-> FALSE,
      panic |-> NoPanic,
      hooks |-> <<>> ]

\* The guard that compares but never records the key it has accepted.
check_without_recording(a, k) ==
    IF ~debug THEN a
    ELSE IF StrLess(k, a.prev_key)
    THEN [a EXCEPT !.panicked = TRUE,
                   !.panic = [msg |-> MisorderMessage, previous |-> a.prev_key, current |-> k]]
    ELSE a

\* The debug-build guard: the key must not be less than the previous one.
check_dictionary_order(a, k) ==
    IF ~debug THEN a
    ELSE IF StrLess(k, a.prev_key)
    THEN [a EXCEPT !.panicked = TRUE,
                   !.panic = [msg |-> MisorderMessage, previous |-> a.prev_key, current |-> k]]
    ELSE [a EXCEPT !.prev_key = k]

\* key="value" appended to the header, after a ',' when a parameter is there.
append_to_header(h, k, encoded) ==
    h \o (IF h # OAuthPrefix THEN <<",">> ELSE <<>>) \o k \o <<"=", DQ>> \o encoded \o <<DQ>>

\* A parameter fed to the Sign without the delimiter before it.
parameter_without_delimiter(s, k, twice_encoded) ==
    InspectSign_parameter(s, PercentEncode(k), twice_encoded)

\* One parameter fed to the Sign: delimiter(), then parameter().
append_to_sign(s, k, twice_encoded) ==
    InspectSign_parameter(InspectSign_delimiter(s), PercentEncode(k), twice_encoded)

\* A user parameter written into the header like an oauth_* one.
header_with_user_parameter(h, k, encoded) == append_to_header(h, k, encoded)

\* The header after a user parameter: the header carries the oauth_*
\* parameters only (four serialize_parameter calls leave no trace in it).
header_after_parameter(h, k, encoded) == h

Authorizer_serialize_parameter(a, k, v) ==
    LET c == check_dictionary_order(a, k)
    IN  IF c.panicked THEN c
        ELSE [c EXCEPT !.header = header_after_parameter(@, k, PercentEncode(v)),
                       !.sign = append_to_sign(@, k, PercentEncode(PercentEncode(v)))]

Authorizer_serialize_parameter_encoded(a, k, v) ==
    LET c == check_dictionary_order(a, k)
    IN  IF c.panicked THEN c
        ELSE [c EXCEPT !.header = header_after_parameter(@, k, v),
                       !.sign = append_to_sign(@, k, PercentEncode(v))]

\* An oauth_* parameter written to the header but kept from the Sign.
oauth_to_header_only(a, k, v) ==
    LET c == check_dictionary_order(a, k)
    IN  IF c.panicked THEN c
        ELSE [c EXCEPT !.header = append_to_header(@, k, PercentEncode(v))]

\* An oauth_* parameter: to the header and to the Sign.
append_oauth(a, k, v) ==
    LET c == check_dictionary_order(a, k)
    IN  IF c.panicked THEN c
        ELSE [c EXCEPT !.header = append_to_header(@, k, PercentEncode(v)),
                       !.sign = append_to_sign(@, k, PercentEncode(PercentEncode(v)))]

\* A hook entered: recorded, unless a panic has already unwound the caller.
Invoked(a, hook) == [a EXCEPT !.hooks = Append(@, hook)]

Authorizer_serialize_oauth_callback(a) ==
    IF a.panicked THEN a
    ELSE IF a.options.callback.some
    THEN append_oauth(Invoked(a, HookOrder[1]), oauth_callback, a.options.callback.val)
    ELSE Invoked(a, HookOrder[1])

Authorizer_serialize_oauth_consumer_key(a) ==
    IF a.panicked THEN a
    ELSE append_oauth(Invoked(a, HookOrder[2]), oauth_consumer_key, a.client.identifier)

Authorizer_serialize_oauth_nonce(a) ==
    IF a.panicked THEN a
    ELSE IF Sign_use_nonce(a.sign.inner)
    THEN append_oauth(Invoked(a, HookOrder[3]), oauth_nonce, a.nonce)
    ELSE Invoked(a, HookOrder[3])

Authorizer_serialize_oauth_signature_method(a) ==
    IF a.panicked THEN a
    ELSE append_oauth(Invoked(a, HookOrder[4]), oauth_signature_method,
                      PlaintextSign_get_signature_method_name)

Authorizer_serialize_oauth_timestamp(a) ==
    IF a.panicked THEN a
    ELSE IF Sign_use_timestamp(a.sign.inner)
    THEN append_oauth(Invoked(a, HookOrder[5]), oauth_timestamp, Decimal(a.timestamp))
    ELSE Invoked(a, HookOrder[5])

Authorizer_serialize_oauth_token(a) ==
    IF a.panicked THEN a
    ELSE IF a.token.some
    THEN append_oauth(Invoked(a, HookOrder[6]), oauth_token, a.token.val.identifier)
    ELSE Invoked(a, HookOrder[6])

Authorizer_serialize_oauth_verifier(a) ==
    IF a.panicked THEN a
    ELSE IF a.options.verifier.some
    THEN append_oauth(Invoked(a, HookOrder[7]), oauth_verifier, a.options.verifier.val)
    ELSE Invoked(a, HookOrder[7])

\* The version hook that emits whatever options.version says.
version_unconditional(a) ==
    IF a.panicked THEN a
    ELSE append_oauth(Invoked(a, HookOrder[8]), oauth_version, VersionValue)

Authorizer_serialize_oauth_version(a) ==
    IF a.panicked THEN a
    ELSE IF a.options.version
    THEN append_oauth(Invoked(a, HookOrder[8]), oauth_version, VersionValue)
    ELSE Invoked(a, HookOrder[8])

\* The aggregate with the timestamp and token hooks exchanged.
Aggregate_token_before_timestamp(a) ==
    Authorizer_serialize_oauth_version(
     Authorizer_serialize_oauth_verifier(
      Authorizer_serialize_oauth_timestamp(
       Authorizer_serialize_oauth_token(
        Authorizer_serialize_oauth_signature_method(
         Authorizer_serialize_oauth_nonce(
          Authorizer_serialize_oauth_consumer_key(
           Authorizer_serialize_oauth_callback(a))))))))

\* The aggregate with the callback and consumer_key hooks exchanged.
Aggregate_consumer_key_first(a) ==
    Authorizer_serialize_oauth_version(
     Authorizer_serialize_oauth_verifier(
      Authorizer_serialize_oauth_token(
       Authorizer_serialize_oauth_timestamp(
        Authorizer_serialize_oauth_signature_method(
         Authorizer_serialize_oauth_nonce(
          Authorizer_serialize_oauth_callback(
           Authorizer_serialize_oauth_consumer_key(a))))))))

\* The aggregate without its last hook.
Aggregate_without_version(a) ==
    Authorizer_serialize_oauth_verifier(
     Authorizer_serialize_oauth_token(
      Authorizer_serialize_oauth_timestamp(
       Authorizer_serialize_oauth_signature_method(
        Authorizer_serialize_oauth_nonce(
         Authorizer_serialize_oauth_consumer_key(
          Authorizer_serialize_oauth_callback(a)))))))

\* The aggregate that goes on to emit an oauth_signature parameter.
Aggregate_with_signature(a) ==
    LET b == Authorizer_serialize_oauth_version(
              Authorizer_serialize_oauth_verifier(
               Authorizer_serialize_oauth_token(
                Authorizer_serialize_oauth_timestamp(
                 Authorizer_serialize_oauth_signature_method(
                  Authorizer_serialize_oauth_nonce(
                   Authorizer_serialize_oauth_consumer_key(
                    Authorizer_serialize_oauth_callback(a))))))))
    IN  IF b.panicked THEN b ELSE append_oauth(b, oauth_signature, <<>>)

\* SerializerExt::serialize_oauth_parameters on the Authorizer.
Authorizer_serialize_oauth_parameters(a) ==
    Authorizer_serialize_oauth_version(
     Authorizer_serialize_oauth_verifier(
      Authorizer_serialize_oauth_token(
       Authorizer_serialize_oauth_timestamp(
        Authorizer_serialize_oauth_signature_method(
         Authorizer_serialize_oauth_nonce(
          Authorizer_serialize_oauth_consumer_key(
           Authorizer_serialize_oauth_callback(a))))))))

\* Authorizer::end: Sign.end(), then ,oauth_signature="encode(signature)".
Authorizer_end(a) ==
    LET e == InspectSign_end(a.sign)
    IN  [ header |-> a.header \o <<",">> \o oauth_signature \o <<"=", DQ>>
                         \o PercentEncode(e.signature) \o <<DQ>>,
          sign_log |-> e.log ]


\* ----------------------------------------------------------------- inputs

\* The number of serializer calls a direct caller makes before end().
MaxCalls == 2

bar == <<"b", "a", "r">>
foo == <<"f", "o", "o">>
zed == <<"z">>
\* Keys a direct caller may submit; nothing rejects an oauth_ key at run time.
AuthKeys == {bar, foo, oauth_signature, zed}

\* A value that needs no encoding, and one that does.
Plain == <<"t">>
Spaced == <<"a", " ", "&">>
AuthValues == {Plain, Spaced}

Clients == {[identifier |-> <<"c", "k">>, secret |-> <<"c", "s">>]}
Tokens == {None, Some([identifier |-> <<"t", "k">>, secret |-> <<"t", " ">>])}
OptionsSet ==
    [ callback : {None, Some(<<"c", ":">>)},
      nonce : {Some(<<"n">>)},
      timestamp : {Some(12)},
      verifier : {None, Some(<<"v", "f">>)},
      version : BOOLEAN ]
Methods == {Plaintext, PlaintextBare}
GET == <<"G", "E", "T">>
Uri == <<"u", "/">>
FreshNonce == <<"r">>

NoAuth == Authorizer_new(Plaintext, <<>>, <<>>, [identifier |-> <<>>, secret |-> <<>>], None,
                         [callback |-> None, nonce |-> None, timestamp |-> None,
                          verifier |-> None, version |-> FALSE], <<>>, 0)
NoUrl == [data |-> <<>>, next_append |-> "None"]
NoSign == Inspect_sign_with(Plaintext, <<>>, None)

\* -------------------------------------- a direct caller of the Authorizer

InitWith(start) ==
    /\ debug \in BOOLEAN
    /\ client \in Clients
    /\ token \in Tokens
    /\ options \in OptionsSet
    /\ \E m \in Methods :
           auth = Authorizer_new(m, GET, Uri, client, token, options, FreshNonce, 7)
    /\ url = NoUrl
    /\ sign = NoSign
    /\ ctor = [kind |-> "auth", uri |-> Uri]
    /\ calls = <<>>
    /\ output = None
    /\ pc = start

InitAuth == InitWith("open")

AuthCall(op, k, v, next) ==
    /\ pc = "open"
    /\ Len(calls) < MaxCalls
    /\ auth' = next
    /\ calls' = Append(calls, Call(op, k, v))
    /\ pc' = IF next.panicked THEN "panicked" ELSE "open"
    /\ UNCHANGED <<debug, client, token, options, url, sign, ctor, output>>

AuthSerializeParameter ==
    \E k \in AuthKeys, v \in AuthValues :
        AuthCall("serialize_parameter", k, v, Authorizer_serialize_parameter(auth, k, v))

AuthSerializeParameterEncoded ==
    \E k \in AuthKeys, v \in AuthValues :
        AuthCall("serialize_parameter_encoded", k, PercentEncode(v),
                 Authorizer_serialize_parameter_encoded(auth, k, PercentEncode(v)))

AuthOauthCallback ==
    AuthCall(HookOrder[1], <<>>, <<>>, Authorizer_serialize_oauth_callback(auth))

AuthOauthConsumerKey ==
    AuthCall(HookOrder[2], <<>>, <<>>, Authorizer_serialize_oauth_consumer_key(auth))

AuthOauthNonce ==
    AuthCall(HookOrder[3], <<>>, <<>>, Authorizer_serialize_oauth_nonce(auth))

AuthOauthSignatureMethod ==
    AuthCall(HookOrder[4], <<>>, <<>>, Authorizer_serialize_oauth_signature_method(auth))

AuthOauthTimestamp ==
    AuthCall(HookOrder[5], <<>>, <<>>, Authorizer_serialize_oauth_timestamp(auth))

AuthOauthToken ==
    AuthCall(HookOrder[6], <<>>, <<>>, Authorizer_serialize_oauth_token(auth))

AuthOauthVerifier ==
    AuthCall(HookOrder[7], <<>>, <<>>, Authorizer_serialize_oauth_verifier(auth))

AuthOauthVersion ==
    AuthCall(HookOrder[8], <<>>, <<>>, Authorizer_serialize_oauth_version(auth))

AuthOauthParameters ==
    AuthCall("serialize_oauth_parameters", <<>>, <<>>,
             Authorizer_serialize_oauth_parameters(auth))

AuthEnd ==
    /\ pc = "open"
    /\ LET e == Authorizer_end(auth)
       IN  /\ auth' = [auth EXCEPT !.header = e.header, !.sign.log = e.sign_log]
           /\ output' = Some(e.header)
    /\ calls' = Append(calls, Call("end", <<>>, <<>>))
    /\ pc' = "ended"
    /\ UNCHANGED <<debug, client, token, options, url, sign, ctor>>

Next ==
    \/ AuthSerializeParameter
    \/ AuthSerializeParameterEncoded
    \/ AuthOauthCallback
    \/ AuthOauthConsumerKey
    \/ AuthOauthNonce
    \/ AuthOauthSignatureMethod
    \/ AuthOauthTimestamp
    \/ AuthOauthToken
    \/ AuthOauthVerifier
    \/ AuthOauthVersion
    \/ AuthOauthParameters
    \/ AuthEnd

Spec == InitAuth /\ [][Next]_vars


\* --------------------------------------------------------------- Urlencoder

Urlencoder_form == [data |-> <<>>, next_append |-> "None"]

Urlencoder_query(uri) == [data |-> uri, next_append |-> "Question"]

\* append_delim that never writes the '&'.
append_delim_without_ampersand(u) ==
    CASE u.next_append = "None" -> [u EXCEPT !.next_append = "Ampersand"]
      [] u.next_append = "Question" ->
             [u EXCEPT !.data = Append(@, "?"), !.next_append = "Ampersand"]
      [] u.next_append = "Ampersand" -> u

\* append_delim that writes the '?' but keeps asking for it.
append_delim_question_stays(u) ==
    CASE u.next_append = "None" -> [u EXCEPT !.next_append = "Ampersand"]
      [] u.next_append = "Question" -> [u EXCEPT !.data = Append(@, "?")]
      [] u.next_append = "Ampersand" -> [u EXCEPT !.data = Append(@, "&")]

append_delim(u) ==
    CASE u.next_append = "None" -> [u EXCEPT !.next_append = "Ampersand"]
      [] u.next_append = "Question" ->
             [u EXCEPT !.data = Append(@, "?"), !.next_append = "Ampersand"]
      [] u.next_append = "Ampersand" -> [u EXCEPT !.data = Append(@, "&")]

\* serialize_parameter that writes the value as it is given.
parameter_verbatim(u, k, v) ==
    [append_delim(u) EXCEPT !.data = @ \o k \o <<"=">> \o v]

Urlencoder_serialize_parameter(u, k, v) ==
    [append_delim(u) EXCEPT !.data = @ \o k \o <<"=">> \o PercentEncode(v)]

\* serialize_parameter_encoded that encodes the value once more.
encoded_again(u, k, v) ==
    [append_delim(u) EXCEPT !.data = @ \o k \o <<"=">> \o PercentEncode(v)]

Urlencoder_serialize_parameter_encoded(u, k, v) ==
    [append_delim(u) EXCEPT !.data = @ \o k \o <<"=">> \o v]

\* A blank hook that still advances the delimiter state.
hook_appends_delim(u, hook) == append_delim(u)

\* skip_serialize_oauth_parameters!(): the eight hooks are blank.
Urlencoder_serialize_oauth_hook(u, hook) == u

\* SerializerExt::serialize_oauth_parameters on the Urlencoder.
Urlencoder_serialize_oauth_parameters(u) ==
    Urlencoder_serialize_oauth_hook(
     Urlencoder_serialize_oauth_hook(
      Urlencoder_serialize_oauth_hook(
       Urlencoder_serialize_oauth_hook(
        Urlencoder_serialize_oauth_hook(
         Urlencoder_serialize_oauth_hook(
          Urlencoder_serialize_oauth_hook(
           Urlencoder_serialize_oauth_hook(u, HookOrder[1]),
           HookOrder[2]), HookOrder[3]), HookOrder[4]), HookOrder[5]), HookOrder[6]),
      HookOrder[7]), HookOrder[8])

Urlencoder_end(u) == u.data

\* ----------------------------------------- a direct caller of the Urlencoder

\* The number of serializer calls a caller makes on an Urlencoder before end().
MaxUrlCalls == 3

UrlKeys == {bar, foo}
UrlValues == {Plain, Spaced}
\* A URI without a query, and one that already has a '?' in it.
UrlUris == {Uri, <<"u", "?">>}

InitUrl ==
    /\ debug = TRUE
    /\ client \in Clients
    /\ token = None
    /\ options \in {o \in OptionsSet : ~o.callback.some /\ ~o.verifier.some /\ ~o.version}
    /\ auth = NoAuth
    /\ ctor \in {[kind |-> "form", uri |-> <<>>]} \cup {[kind |-> "query", uri |-> u] : u \in UrlUris}
    /\ url = IF ctor.kind = "form" THEN Urlencoder_form ELSE Urlencoder_query(ctor.uri)
    /\ sign = NoSign
    /\ calls = <<>>
    /\ output = None
    /\ pc = "open"

UrlCall(op, k, v, next) ==
    /\ pc = "open"
    /\ Len(calls) < MaxUrlCalls
    /\ url' = next
    /\ calls' = Append(calls, Call(op, k, v))
    /\ UNCHANGED <<debug, client, token, options, auth, sign, ctor, output, pc>>

UrlSerializeParameter ==
    \E k \in UrlKeys, v \in UrlValues :
        UrlCall("serialize_parameter", k, v, Urlencoder_serialize_parameter(url, k, v))

UrlSerializeParameterEncoded ==
    \E k \in UrlKeys, v \in UrlValues :
        UrlCall("serialize_parameter_encoded", k, PercentEncode(v),
                Urlencoder_serialize_parameter_encoded(url, k, PercentEncode(v)))

UrlSerializeOauthHook ==
    \E i \in DOMAIN HookOrder :
        UrlCall(HookOrder[i], <<>>, <<>>, Urlencoder_serialize_oauth_hook(url, HookOrder[i]))

UrlSerializeOauthParameters ==
    UrlCall("serialize_oauth_parameters", <<>>, <<>>,
            Urlencoder_serialize_oauth_parameters(url))

UrlEnd ==
    /\ pc = "open"
    /\ output' = Some(Urlencoder_end(url))
    /\ calls' = Append(calls, Call("end", <<>>, <<>>))
    /\ pc' = "ended"
    /\ UNCHANGED <<debug, client, token, options, auth, url, sign, ctor>>

NextUrl ==
    \/ UrlSerializeParameter
    \/ UrlSerializeParameterEncoded
    \/ UrlSerializeOauthHook
    \/ UrlSerializeOauthParameters
    \/ UrlEnd

SpecUrl == InitUrl /\ [][NextUrl]_vars


\* ------------------------------ a Request serialized through the Authorizer

\* The number of user parameters of a request.
MaxParams == 2

ReqKeys == {bar, foo, zed}
ReqValues == {Spaced}

\* The last user key the request has submitted (empty before the first).
LastUserKey ==
    LET user == SelectSeq(calls, LAMBDA c : c.op \in {"serialize_parameter",
                                                       "serialize_parameter_encoded"})
    IN  IF user = <<>> THEN <<>> ELSE user[Len(user)].k

UserCalls ==
    Len(SelectSeq(calls, LAMBDA c : c.op \in {"serialize_parameter",
                                               "serialize_parameter_encoded"}))

\* Request::serialize, as the contract has it: user parameters below the
\* oauth_* keys in ascending order, the aggregate once, user parameters above
\* them in ascending order, end().
ReqMaySubmit(k) ==
    /\ pc \in {"pre", "post"}
    /\ UserCalls < MaxParams
    /\ StrLeq(LastUserKey, k)
    /\ pc = "pre" => StrLess(k, oauth_callback)
    /\ pc = "post" => StrLess(oauth_version, k)

ReqCall(op, k, v, next, after) ==
    /\ auth' = next
    /\ calls' = Append(calls, Call(op, k, v))
    /\ pc' = IF next.panicked THEN "panicked" ELSE after
    /\ UNCHANGED <<debug, client, token, options, url, sign, ctor, output>>

ReqParameter ==
    \E k \in ReqKeys, v \in ReqValues :
        /\ ReqMaySubmit(k)
        /\ ReqCall("serialize_parameter", k, v, Authorizer_serialize_parameter(auth, k, v), pc)

ReqParameterEncoded ==
    \E k \in ReqKeys, v \in ReqValues :
        /\ ReqMaySubmit(k)
        /\ ReqCall("serialize_parameter_encoded", k, PercentEncode(v),
                   Authorizer_serialize_parameter_encoded(auth, k, PercentEncode(v)), pc)

ReqOauthParameters ==
    /\ pc = "pre"
    /\ ReqCall("serialize_oauth_parameters", <<>>, <<>>,
               Authorizer_serialize_oauth_parameters(auth), "post")

ReqEnd ==
    /\ pc = "post"
    /\ LET e == Authorizer_end(auth)
       IN  /\ auth' = [auth EXCEPT !.header = e.header, !.sign.log = e.sign_log]
           /\ output' = Some(e.header)
    /\ calls' = Append(calls, Call("end", <<>>, <<>>))
    /\ pc' = "ended"
    /\ UNCHANGED <<debug, client, token, options, url, sign, ctor>>

NextReq ==
    \/ ReqParameter
    \/ ReqParameterEncoded
    \/ ReqOauthParameters
    \/ ReqEnd

SpecReq == InitWith("pre") /\ [][NextReq]_vars

\* ------------------------------------------- a direct caller of a PLAINTEXT Sign

\* The number of calls a caller makes on a Sign before end().
MaxSignCalls == 3

Secrets == {<<"c", "s">>, <<"k", "&">>}
TokenSecrets == {None, Some(<<>>), Some(<<"t", " ">>)}
HttpMethods == {GET, <<"P", "O", "S", "T">>}

InitSign ==
    /\ debug = TRUE
    /\ client \in {[identifier |-> <<"c", "k">>, secret |-> cs] : cs \in Secrets}
    /\ token \in {None} \cup {Some([identifier |-> <<"t", "k">>, secret |-> ts.val]) :
                                 ts \in TokenSecrets \ {None}}
    /\ options \in {o \in OptionsSet : ~o.callback.some /\ ~o.verifier.some /\ ~o.version}
    /\ auth = NoAuth
    /\ url = NoUrl
    /\ sign = Inspect_sign_with(Plaintext, client.secret,
                                IF token.some THEN Some(token.val.secret) ELSE None)
    /\ ctor = [kind |-> "sign", uri |-> <<>>]
    /\ calls = <<>>
    /\ output = None
    /\ pc = "open"

SignCallStep(next) ==
    /\ pc = "open"
    /\ Len(sign.log) < MaxSignCalls
    /\ sign' = next
    /\ UNCHANGED <<debug, client, token, options, auth, url, ctor, calls, output, pc>>

SignRequestMethod ==
    \E m \in HttpMethods : SignCallStep(InspectSign_request_method(sign, m))

SignUri ==
    \E u \in UrlUris : SignCallStep(InspectSign_uri(sign, u))

SignDelimiter == SignCallStep(InspectSign_delimiter(sign))

SignParameter ==
    \E k \in {bar, oauth_token}, v \in {Plain, Spaced} :
        SignCallStep(InspectSign_parameter(sign, k, v))

SignEnd ==
    /\ pc = "open"
    /\ LET e == InspectSign_end(sign)
       IN  /\ sign' = [sign EXCEPT !.log = e.log]
           /\ output' = Some(e.signature)
    /\ pc' = "ended"
    /\ UNCHANGED <<debug, client, token, options, auth, url, ctor, calls>>

NextSign ==
    \/ SignRequestMethod
    \/ SignUri
    \/ SignDelimiter
    \/ SignParameter
    \/ SignEnd

SpecSign == InitSign /\ [][NextSign]_vars


\* ------------------------------------------------------------ observations

\* The pieces of s between occurrences of the character sep.
RECURSIVE SplitOn(_, _)
SplitOn(s, sep) ==
    IF \A i \in 1..Len(s) : s[i] # sep
    THEN <<s>>
    ELSE LET i == CHOOSE j \in 1..Len(s) : s[j] = sep /\ \A m \in 1..(j - 1) : s[m] # sep
         IN  <<SubSeq(s, 1, i - 1)>> \o SplitOn(SubSeq(s, i + 1, Len(s)), sep)

\* The part of a piece before its first '='.
KeyOf(piece) == Head(SplitOn(piece, "="))

\* The parameters of a header, as written after "OAuth ".
HeaderParams(h) ==
    LET rest == SubSeq(h, Len(OAuthPrefix) + 1, Len(h))
    IN  IF rest = <<>> THEN <<>> ELSE SplitOn(rest, ",")

HeaderKeys(h) == [i \in DOMAIN HeaderParams(h) |-> KeyOf(HeaderParams(h)[i])]

Last(s) == s[Len(s)]

IsParamOp(op) == op \in {"serialize_parameter", "serialize_parameter_encoded"}

\* The call the step has just made, when it has made one.
Called == calls' # calls

\* The key each hook writes, in the order of HookOrder.
HookKeys ==
    << oauth_callback, oauth_consumer_key, oauth_nonce, oauth_signature_method,
       oauth_timestamp, oauth_token, oauth_verifier, oauth_version >>

\* ----------------------------------------------------------------- claims

\* C1 as stated: the keys of the returned header, taken together, are in
\* ascending byte order and oauth_signature is the last of them.
C1_AllKeysAscending ==
    pc = "ended" =>
        LET ks == HeaderKeys(output.val)
        IN  /\ \A i \in 1..(Len(ks) - 1) : StrLeq(ks[i], ks[i + 1])
            /\ Last(ks) = oauth_signature

\* C1, amended: for a request whose user keys ascend and avoid the oauth_
\* prefix, under every combination of callback, verifier, version and token,
\* the parameters of the returned header that precede oauth_signature are in
\* ascending key order, and oauth_signature is the last parameter (it follows
\* oauth_signature_method and later keys although it sorts before them).
C1_HeaderOrder ==
    pc = "ended" =>
        LET ks == HeaderKeys(output.val)
        IN  /\ \A i \in 1..(Len(ks) - 2) : StrLeq(ks[i], ks[i + 1])
            /\ Last(ks) = oauth_signature
            /\ \A i \in 1..(Len(ks) - 1) : ks[i] # oauth_signature

C1_Witness ==
    /\ pc = "ended"
    /\ UserCalls = 2
    /\ options.callback.some /\ options.verifier.some /\ options.version /\ token.some
    /\ Len(HeaderKeys(output.val)) = 9

\* Whether the hook numbered i in HookOrder has a parameter to emit.
Applicable(i) ==
    CASE i = 1 -> options.callback.some
      [] i = 2 -> TRUE
      [] i = 3 -> Sign_use_nonce(auth.sign.inner)
      [] i = 4 -> TRUE
      [] i = 5 -> Sign_use_timestamp(auth.sign.inner)
      [] i = 6 -> token.some
      [] i = 7 -> options.verifier.some
      [] i = 8 -> options.version

\* C2: a serialize_oauth_* hook of the Authorizer that returns adds exactly
\* one parameter, under its own key, to the header iff it is applicable
\* (callback, verifier: the option is set; nonce, timestamp: the Sign uses
\* it; token: token credentials are present; version: the option is true;
\* consumer_key, signature_method: always) and nothing otherwise; so without
\* a token no oauth_token is in the header.
C2_HookEmitsIffApplicable ==
    /\ [][\A i \in DOMAIN HookOrder :
            (Called /\ Last(calls').op = HookOrder[i] /\ ~auth'.panicked) =>
                HeaderKeys(auth'.header) =
                    IF Applicable(i)
                    THEN Append(HeaderKeys(auth.header), HookKeys[i])
                    ELSE HeaderKeys(auth.header)]_vars
    /\ [](~token.some =>
            \A i \in DOMAIN HeaderKeys(auth.header) : HeaderKeys(auth.header)[i] # oauth_token)

C2_Witness ==
    /\ ~token.some
    /\ ~options.version
    /\ ~Sign_use_nonce(auth.sign.inner)
    /\ Len(calls) = 2
    /\ calls[1].op = "serialize_oauth_consumer_key"
    /\ calls[2].op = "serialize_oauth_token"
    /\ HeaderKeys(auth.header) = <<oauth_consumer_key>>

\* C3: in a debug build, in a sequence of serialize_parameter and
\* serialize_parameter_encoded calls on an Authorizer, a call whose key is
\* byte-wise less than the key of the call before it panics with the
\* misordering message, naming the previous and the current key, and a call
\* whose key is not less does not panic, whichever of the two methods made
\* either call.
C3_OrderGuard ==
    [][(debug /\ Called /\ \A i \in DOMAIN calls' : IsParamOp(calls'[i].op)) =>
          LET cur == Last(calls').k
              prev == IF calls = <<>> THEN <<>> ELSE Last(calls).k
          IN  IF StrLess(cur, prev)
              THEN /\ pc' = "panicked"
                   /\ auth'.panic =
                          [ msg |-> "appended key is less than previously appended one in dictionary order",
                            previous |-> prev,
                            current |-> cur ]
              ELSE pc' = "open" /\ ~auth'.panicked /\ auth'.panic = NoPanic]_vars

C3_Witness ==
    /\ debug
    /\ Len(calls) = 2
    /\ calls[1].op = "serialize_parameter_encoded" /\ calls[1].k = foo
    /\ calls[2].op = "serialize_parameter" /\ calls[2].k = bar
    /\ pc = "panicked"
    /\ auth.panic.previous = foo /\ auth.panic.current = bar

\* The keys of the parameters a Sign received after its first n calls.
SignKeysAfter(log, n) ==
    LET new == SelectSeq(SubSeq(log, n + 1, Len(log)), LAMBDA c : c.op = "parameter")
    IN  [i \in DOMAIN new |-> new[i].k]

\* C4: one call of the aggregate serialize_oauth_parameters invokes the
\* hooks in the order callback, consumer_key, nonce, signature_method,
\* timestamp, token, verifier, version, all eight when no hook panics and
\* the hooks up to the panicking one otherwise, and nothing else; the keys
\* it feeds to the Sign are in strictly ascending byte order.
C4_AggregateOrder ==
    [][(Called /\ Last(calls').op = "serialize_oauth_parameters") =>
          /\ \E n \in 0..8 :
                /\ auth'.hooks = auth.hooks \o
                       SubSeq(<< "serialize_oauth_callback", "serialize_oauth_consumer_key",
                                 "serialize_oauth_nonce", "serialize_oauth_signature_method",
                                 "serialize_oauth_timestamp", "serialize_oauth_token",
                                 "serialize_oauth_verifier", "serialize_oauth_version" >>, 1, n)
                /\ ~auth'.panicked => n = 8
          /\ LET ks == SignKeysAfter(auth'.sign.log, Len(auth.sign.log))
             IN  \A i \in 1..(Len(ks) - 1) : StrLess(ks[i], ks[i + 1])
          /\ \A i \in 1..7 : StrLess(HookKeys[i], HookKeys[i + 1])]_vars

C4_Witness ==
    /\ Len(calls) = 2
    /\ calls[1].op = "serialize_parameter" /\ calls[1].k = bar
    /\ calls[2].op = "serialize_oauth_parameters"
    /\ auth.hooks = HookOrder
    /\ Len(HeaderKeys(auth.header)) = 8

\* How often hook h was invoked.
Invocations(h) == Cardinality({i \in DOMAIN auth.hooks : auth.hooks[i] = h})

\* C5 as stated: a request serialization that calls the aggregate once
\* makes nine hook calls, one for each of nine serialize_oauth_* hooks.
C5_NineHooks ==
    pc = "ended" =>
        /\ Len(auth.hooks) = 9
        /\ Cardinality({auth.hooks[i] : i \in DOMAIN auth.hooks}) = 9

\* C5, amended: a request serialization that calls the aggregate once makes
\* eight hook calls, exactly one for each of the eight serialize_oauth_*
\* hooks (the aggregate expands into eight sub-calls); no hook is called
\* zero times or twice.
C5_EachHookOnce ==
    pc \in {"post", "ended"} =>
        /\ Len(auth.hooks) = 8
        /\ \A i \in DOMAIN HookOrder : Invocations(HookOrder[i]) = 1
        /\ Len(SelectSeq(calls, LAMBDA c : c.op = "serialize_oauth_parameters")) = 1

C5_Witness ==
    /\ pc = "ended"
    /\ UserCalls = 1
    /\ Len(auth.hooks) = 8
    /\ ~options.callback.some /\ ~options.version


\* How many elements of s satisfy Test.
Count(s, Test(_)) == Len(SelectSeq(s, Test))

IsSignatureParameter(c) == c.op = "parameter" /\ c.k = oauth_signature

IsUserSignatureCall(c) == IsParamOp(c.op) /\ c.k = oauth_signature

\* C6 as stated: whatever the calls on the serializer are, the Sign never
\* receives a parameter whose key is oauth_signature.
C6_NeverSigned ==
    \A i \in DOMAIN auth.sign.log : ~IsSignatureParameter(auth.sign.log[i])

\* C6, amended: the Sign receives a parameter with key oauth_signature only
\* when the caller itself submits a user parameter under that key (nothing
\* rejects one at run time), so for every sequence of serializer calls
\* without such a user parameter none is passed to Sign.parameter: no hook,
\* nor the aggregate, nor end() passes one. oauth_signature is written only
\* to the header, by end(), once and as the last parameter, and Sign.end()
\* is the last call the Sign receives.
C6_SignatureOnlyInHeader ==
    /\ Count(auth.sign.log, IsSignatureParameter) <= Count(calls, IsUserSignatureCall)
    /\ (\E i \in DOMAIN HeaderKeys(auth.header) : HeaderKeys(auth.header)[i] = oauth_signature)
           <=> pc = "ended"
    /\ pc = "ended" =>
           /\ Last(auth.sign.log).op = "end"
           /\ Count(auth.sign.log, LAMBDA c : c.op = "end") = 1
           /\ Last(HeaderKeys(output.val)) = oauth_signature
           /\ Count(HeaderKeys(output.val), LAMBDA k : k = oauth_signature) = 1
    /\ pc # "ended" => \A i \in DOMAIN auth.sign.log : auth.sign.log[i].op # "end"

C6_Witness ==
    /\ pc = "ended"
    /\ Len(calls) = 3
    /\ calls[1].op = "serialize_parameter" /\ calls[1].k = foo
    /\ calls[2].op = "serialize_oauth_parameters"
    /\ Count(auth.sign.log, LAMBDA c : c.op = "parameter") >= 5
    /\ Count(auth.sign.log, IsSignatureParameter) = 0

C8_PlaintextIdentity ==
    LET key == PercentEncode(client.secret) \o <<"&">>
                   \o (IF token.some THEN PercentEncode(token.val.secret) ELSE <<>>)
    IN  /\ sign.inner.signing_key = key
        /\ pc = "ended" => output.val = key
        /\ (pc = "ended" /\ ~token.some) => Last(output.val) = "&"

C8_Witness ==
    /\ pc = "ended"
    /\ ~token.some
    /\ client.secret = <<"k", "&">>
    /\ output.val = <<"k", "%", "2", "6", "&">>
    /\ Len(sign.log) = 4
    /\ sign.log[1].op = "parameter" /\ sign.log[2].op = "request_method"
    /\ sign.log[3].op = "delimiter"

\* The user parameters the driver has submitted, in call order.
UserParams == SelectSeq(calls, LAMBDA c : IsParamOp(c.op))

\* key=value as a parameter call is to be written: the key verbatim, the
\* value percent-encoded unless it was submitted as already encoded.
PairText(c) ==
    c.k \o <<"=">> \o (IF c.op = "serialize_parameter" THEN PercentEncode(c.v) ELSE c.v)

RECURSIVE JoinPairs(_)
JoinPairs(ps) ==
    IF ps = <<>> THEN <<>>
    ELSE IF Len(ps) = 1 THEN PairText(ps[1])
    ELSE PairText(ps[1]) \o <<"&">> \o JoinPairs(Tail(ps))

\* C9: for Urlencoder::query(uri) and n parameter calls, interleaved with
\* any serialize_oauth_* calls, the buffer, and so what end() returns, is
\* the URI unchanged when n = 0 and otherwise the URI, one '?', and the n
\* pairs key=value in call order joined by n-1 '&'; the next delimiter is
\* Question until the first parameter and Ampersand ever after.
C9_Query ==
    ctor.kind = "query" =>
        LET n == Len(UserParams)
            expected == ctor.uri \o (IF n = 0 THEN <<>> ELSE <<"?">> \o JoinPairs(UserParams))
        IN  /\ url.data = expected
            /\ pc = "ended" => output.val = expected
            /\ url.next_append = IF n = 0 THEN "Question" ELSE "Ampersand"
            /\ Count(url.data, LAMBDA c : c = "?") =
                   Count(ctor.uri, LAMBDA c : c = "?") + (IF n = 0 THEN 0 ELSE 1)
            /\ Count(url.data, LAMBDA c : c = "&") = IF n = 0 THEN 0 ELSE n - 1

C9_Witness ==
    /\ ctor.kind = "query"
    /\ pc = "ended"
    /\ Len(calls) = 4
    /\ calls[1].op = "serialize_parameter_encoded"
    /\ calls[2].op = "serialize_oauth_parameters"
    /\ calls[3].op = "serialize_parameter"
    /\ output.val = Uri \o <<"?", "b", "a", "r", "=", "t", "&", "f", "o", "o", "=", "t">>

\* C10: for Urlencoder::form() and n parameter calls, the buffer, and so
\* what end() returns, is empty when n = 0 and otherwise the n pairs
\* key=value in call order joined by n-1 '&', with no delimiter before the
\* first or after the last; the key is written verbatim, a value given to
\* serialize_parameter percent-encoded, one given to
\* serialize_parameter_encoded verbatim.
C10_Form ==
    ctor.kind = "form" =>
        LET n == Len(UserParams)
        IN  /\ url.data = JoinPairs(UserParams)
            /\ pc = "ended" => output.val = JoinPairs(UserParams)
            /\ n = 0 => url.data = <<>>
            /\ n > 0 => Head(url.data) \notin {"&", "?"} /\ Last(url.data) \notin {"&", "?"}
            /\ Count(url.data, LAMBDA c : c = "&") = IF n = 0 THEN 0 ELSE n - 1
            /\ url.next_append = IF n = 0 THEN "None" ELSE "Ampersand"

C10_Witness ==
    /\ ctor.kind = "form"
    /\ pc = "ended"
    /\ Len(calls) = 4
    /\ calls[1] = Call("serialize_parameter", bar, Spaced)
    /\ calls[2] = Call("serialize_parameter_encoded", bar, PercentEncode(Spaced))
    /\ calls[3] = Call("serialize_parameter", foo, Plain)
    /\ output.val = <<"b", "a", "r", "=", "a", "%", "2", "0", "%", "2", "6", "&",
                      "b", "a", "r", "=", "a", "%", "2", "0", "%", "2", "6", "&",
                      "f", "o", "o", "=", "t">>

\* The Urlencoder after the parameter calls of cs alone, replayed from u.
RECURSIVE ReplayParams(_, _)
ReplayParams(u, cs) ==
    IF cs = <<>> THEN u
    ELSE ReplayParams(
             IF Head(cs).op = "serialize_parameter"
             THEN Urlencoder_serialize_parameter(u, Head(cs).k, Head(cs).v)
             ELSE Urlencoder_serialize_parameter_encoded(u, Head(cs).k, Head(cs).v),
             Tail(cs))

IsOauthOp(op) ==
    op = "serialize_oauth_parameters" \/ \E i \in DOMAIN HookOrder : op = HookOrder[i]

\* C11: on an Urlencoder, form or query, a call of any serialize_oauth_*
\* hook or of the aggregate serialize_oauth_parameters, wherever it comes in
\* the call sequence, leaves the buffer and the next-delimiter state as they
\* were; the serializer state, and the string end() returns, are those of
\* the same call sequence with the oauth calls removed.
C11_OauthCallsAreNoOps ==
    /\ [][(Called /\ IsOauthOp(Last(calls').op)) =>
              url'.data = url.data /\ url'.next_append = url.next_append]_vars
    /\ [](LET start == IF ctor.kind = "form" THEN Urlencoder_form
                       ELSE Urlencoder_query(ctor.uri)
              bare == ReplayParams(start, UserParams)
          IN  /\ url = bare
              /\ pc = "ended" => output.val = Urlencoder_end(bare))

C11_Witness ==
    /\ ctor.kind = "query"
    /\ pc = "ended"
    /\ Len(calls) = 4
    /\ calls[1] = Call("serialize_oauth_parameters", <<>>, <<>>)
    /\ calls[2] = Call("serialize_parameter", bar, Spaced)
    /\ calls[3] = Call("serialize_oauth_nonce", <<>>, <<>>)
    /\ output.val = Uri \o <<"?", "b", "a", "r", "=", "a", "%", "2", "0", "%", "2", "6">>

\* ------------------------------------------------ Credentials and its Debug

\* Debug of a str: the text between double quotes, a double quote and a
\* backslash in it escaped with a backslash.
RECURSIVE escape_debug(_)
escape_debug(s) ==
    IF s = <<>> THEN <<>>
    ELSE (IF Head(s) \in {DQ, "BACKSLASH"} THEN <<"BACKSLASH", Head(s)>> ELSE <<Head(s)>>)
             \o escape_debug(Tail(s))

str_fmt_debug(s) == <<DQ>> \o escape_debug(s) \o <<DQ>>

\* Debug for Dummy, the stand-in that is formatted in place of the secret.
Dummy_fmt == <<"<", "h", "i", "d", "d", "e", "n", ">">>

\* Formatter::debug_struct(name).field(..).field(..).finish()
debug_struct(name, field1, value1, field2, value2) ==
    name \o <<" ", "{", " ">> \o field1 \o <<":", " ">> \o value1 \o <<",", " ">>
         \o field2 \o <<":", " ">> \o value2 \o <<" ", "}">>

\* The Debug that #[derive(Debug)] would give: it formats the secret.
Credentials_fmt_derived(c) ==
    debug_struct(<<"C", "r", "e", "d", "e", "n", "t", "i", "a", "l", "s">>, <<"i", "d", "e", "n", "t", "i", "f", "i", "e", "r">>, str_fmt_debug(c.identifier),
                 <<"s", "e", "c", "r", "e", "t">>, str_fmt_debug(c.secret))

\* impl Debug for Credentials
Credentials_fmt(c) ==
    debug_struct(<<"C", "r", "e", "d", "e", "n", "t", "i", "a", "l", "s">>, <<"i", "d", "e", "n", "t", "i", "f", "i", "e", "r">>, str_fmt_debug(c.identifier),
                 <<"s", "e", "c", "r", "e", "t">>, Dummy_fmt)

\* Credentials::as_ref: the borrowing view of a pair.
Credentials_as_ref(c) == [identifier |-> c.identifier, secret |-> c.secret]

Identifiers ==
    { <<"c", "k">>, <<"s", "3", "c", "r", "3", "t">>, <<"a", DQ, "b">>, <<"a", "BACKSLASH", "b">>, <<"i", "d">>, <<"h", "i", "d", "d", "e", "n">>, <<"x", "s", "3", "c", "r", "3", "t", "y">>, <<>> }
CredentialSecrets ==
    { <<"s", "3", "c", "r", "3", "t">>, <<"h", "i", "d", "d", "e", "n">>, <<"c", "k">>, <<"e">>, <<"a", DQ, "b">>, <<"p", "w", " ", "d">>, <<"K", "&">>, <<"s", "e", "c", "r", "e", "t">> }

InitCred ==
    /\ debug \in BOOLEAN
    /\ client \in [identifier : Identifiers, secret : CredentialSecrets]
    /\ token = None
    /\ options \in {o \in OptionsSet : ~o.callback.some /\ ~o.verifier.some /\ ~o.version}
    /\ auth = NoAuth
    /\ url = NoUrl
    /\ sign = NoSign
    /\ ctor = [kind |-> "credentials", uri |-> <<>>]
    /\ calls = <<>>
    /\ output = None
    /\ pc = "open"

\* format!("{:?}", credentials)
CredentialsDebug ==
    /\ pc = "open"
    /\ output' = Some(Credentials_fmt(client))
    /\ calls' = Append(calls, Call("fmt", <<>>, <<>>))
    /\ pc' = "ended"
    /\ UNCHANGED <<debug, client, token, options, auth, url, sign, ctor>>

\* format!("{:?}", credentials.as_ref())
CredentialsRefDebug ==
    /\ pc = "open"
    /\ output' = Some(Credentials_fmt(Credentials_as_ref(client)))
    /\ calls' = Append(calls, Call("as_ref.fmt", <<>>, <<>>))
    /\ pc' = "ended"
    /\ UNCHANGED <<debug, client, token, options, auth, url, sign, ctor>>

NextCred ==
    \/ CredentialsDebug
    \/ CredentialsRefDebug

SpecCred == InitCred /\ [][NextCred]_vars

\* Whether needle occurs in hay as a contiguous run.
Contains(hay, needle) ==
    \E i \in 1..(Len(hay) - Len(needle) + 1) : SubSeq(hay, i, i + Len(needle) - 1) = needle

Options_new ==
    [callback |-> None, nonce |-> None, timestamp |-> None, verifier |-> None,
     version |-> FALSE]

\* The setters of auth::Options that the mutators of the Builder forward to.
Options_callback(o, callback) == [o EXCEPT !.callback = callback]
Options_nonce(o, nonce) == [o EXCEPT !.nonce = nonce]
Options_timestamp(o, timestamp) == [o EXCEPT !.timestamp = timestamp]
Options_verifier(o, verifier) == [o EXCEPT !.verifier = verifier]
Options_version(o, version) == [o EXCEPT !.version = version]

Builder_new(cl, signature_method) ==
    [signature_method |-> signature_method, client |-> cl, token |-> None,
     options |-> Options_new]

\* A token mutator that sets the token credentials but never unsets them.
token_never_unset(b, tok) == IF tok.some THEN [b EXCEPT !.token = tok] ELSE b

Builder_token(b, tok) == [b EXCEPT !.token = tok]
Builder_callback(b, callback) == [b EXCEPT !.options = Options_callback(@, callback)]
Builder_nonce(b, nonce) == [b EXCEPT !.options = Options_nonce(@, nonce)]
Builder_timestamp(b, timestamp) == [b EXCEPT !.options = Options_timestamp(@, timestamp)]
Builder_verifier(b, verifier) == [b EXCEPT !.options = Options_verifier(@, verifier)]
Builder_version(b, version) == [b EXCEPT !.options = Options_version(@, version)]

\* The number of mutator calls made on a Builder.
MaxMutations == 3

CallbackArgs == {None, Some(<<"c", ":">>)}
NonceArgs == {None, Some(<<"n">>)}
TimestampArgs == {None, Some(12)}
VerifierArgs == {None, Some(<<"v", "f">>)}

\* The Builder the state holds.
TheBuilder ==
    [signature_method |-> ctor.signature_method, client |-> client, token |-> token,
     options |-> options]

InitBuilder ==
    /\ debug = TRUE
    /\ \E cl \in Clients, sm \in Methods :
           LET b == Builder_new(cl, sm)
           IN  /\ client = b.client
               /\ token = b.token
               /\ options = b.options
               /\ ctor = [kind |-> "builder", uri |-> <<>>,
                          signature_method |-> b.signature_method]
    /\ auth = NoAuth
    /\ url = NoUrl
    /\ sign = NoSign
    /\ calls = <<>>
    /\ output = None
    /\ pc = "builder"

\* A mutator call: the Builder it returns replaces the one in the state.
Mutate(op, arg, b) ==
    /\ pc = "builder"
    /\ Len(calls) < MaxMutations
    /\ client' = b.client
    /\ token' = b.token
    /\ options' = b.options
    /\ ctor' = [ctor EXCEPT !.signature_method = b.signature_method]
    /\ calls' = Append(calls, Call(op, arg, <<>>))
    /\ UNCHANGED <<debug, auth, url, sign, output, pc>>

BuilderToken == \E t \in Tokens : Mutate("token", t, Builder_token(TheBuilder, t))

BuilderCallback ==
    \E c \in CallbackArgs : Mutate("callback", c, Builder_callback(TheBuilder, c))

BuilderNonce == \E n \in NonceArgs : Mutate("nonce", n, Builder_nonce(TheBuilder, n))

BuilderTimestamp ==
    \E t \in TimestampArgs : Mutate("timestamp", t, Builder_timestamp(TheBuilder, t))

BuilderVerifier ==
    \E v \in VerifierArgs : Mutate("verifier", v, Builder_verifier(TheBuilder, v))

BuilderVersion == \E v \in BOOLEAN : Mutate("version", v, Builder_version(TheBuilder, v))

NextBuilder ==
    \/ BuilderToken
    \/ BuilderCallback
    \/ BuilderNonce
    \/ BuilderTimestamp
    \/ BuilderVerifier
    \/ BuilderVersion

SpecBuilder == InitBuilder /\ [][NextBuilder]_vars

\* The argument of the most recent call of mutator op, or default when the
\* mutator has not been called.
MostRecent(op, default) ==
    LET own == SelectSeq(calls, LAMBDA c : c.op = op)
    IN  IF own = <<>> THEN default ELSE Last(own).k

\* C20: Builder::new starts with the token absent and the default options
\* (callback, nonce, timestamp and verifier absent, version false); after
\* any sequence of calls of token, callback, nonce, timestamp, verifier and
\* version each field holds the argument of the most recent call of its own
\* mutator, so a call with None leaves it absent; a mutator call changes no
\* field but its own, and neither the client credentials nor the signature
\* method.
C20_MutatorsSetOwnField ==
    /\ [](calls = <<>> =>
            /\ ~token.some
            /\ ~options.callback.some /\ ~options.nonce.some /\ ~options.timestamp.some
            /\ ~options.verifier.some /\ options.version = FALSE)
    /\ [](/\ token = MostRecent("token", None)
          /\ options.callback = MostRecent("callback", None)
          /\ options.nonce = MostRecent("nonce", None)
          /\ options.timestamp = MostRecent("timestamp", None)
          /\ options.verifier = MostRecent("verifier", None)
          /\ options.version = MostRecent("version", FALSE))
    /\ [][/\ client' = client
          /\ ctor' = ctor
          /\ Called =>
                LET op == Last(calls').op
                IN  /\ op # "token" => token' = token
                    /\ \A f \in {"callback", "nonce", "timestamp", "verifier", "version"} :
                           op # f => options'[f] = options[f]]_vars

C20_Witness ==
    /\ Len(calls) = 3
    /\ calls[1] = Call("token", Some([identifier |-> <<"t", "k">>, secret |-> <<"t", " ">>]), <<>>)
    /\ calls[2] = Call("nonce", Some(<<"n">>), <<>>)
    /\ calls[3] = Call("token", None, <<>>)
    /\ ~token.some
    /\ options.nonce = Some(<<"n">>)
    /\ ~options.callback.some

\* ------------------------------------------ requests signed with a Builder

\* A request description: the user parameters that sort below the oauth_*
\* keys and those that sort above them, each in ascending order of its key.
Param(k, v, encoded) == [k |-> k, v |-> v, encoded |-> encoded]

RECURSIVE Request_submit(_, _)
Request_submit(a, ps) ==
    IF ps = <<>> \/ a.panicked THEN a
    ELSE Request_submit(
             IF Head(ps).encoded
             THEN Authorizer_serialize_parameter_encoded(a, Head(ps).k, Head(ps).v)
             ELSE Authorizer_serialize_parameter(a, Head(ps).k, Head(ps).v),
             Tail(ps))

\* Request::serialize on an Authorizer: the lower parameters, the aggregate
\* once, the upper parameters, end(). A panic on the way unwinds the call.
Request_serialize(r, a) ==
    LET lower == Request_submit(a, r.pre)
        middle == IF lower.panicked THEN lower
                  ELSE Authorizer_serialize_oauth_parameters(lower)
        upper == Request_submit(middle, r.post)
    IN  IF upper.panicked
        THEN [panicked |-> TRUE, header |-> <<>>, sign_log |-> upper.sign.log]
        ELSE [panicked |-> FALSE, header |-> Authorizer_end(upper).header,
              sign_log |-> Authorizer_end(upper).sign_log]

\* Builder::build. env is what the host supplies to the constructor of the
\* Authorizer: the nonce its generator yields and the time its clock shows.
Builder_build(b, method, uri, request, env) ==
    Request_serialize(request,
        Authorizer_new(b.signature_method, method, uri, b.client, b.token, b.options,
                       env.nonce, env.now))

\* Builder::consume: as build, the signature method moved instead of cloned.
Builder_consume(b, method, uri, request, env) ==
    Request_serialize(request,
        Authorizer_new(b.signature_method, method, uri, b.client, b.token, b.options,
                       env.nonce, env.now))

\* A put that signs the request as a POST.
put_as_post(b, uri, request, env) == Builder_build(b, <<"P", "O", "S", "T">>, uri, request, env)
Builder_get(b, uri, request, env) == Builder_build(b, <<"G", "E", "T">>, uri, request, env)
Builder_put(b, uri, request, env) == Builder_build(b, <<"P", "U", "T">>, uri, request, env)
Builder_post(b, uri, request, env) == Builder_build(b, <<"P", "O", "S", "T">>, uri, request, env)
Builder_delete(b, uri, request, env) == Builder_build(b, <<"D", "E", "L", "E", "T", "E">>, uri, request, env)
Builder_options(b, uri, request, env) == Builder_build(b, <<"O", "P", "T", "I", "O", "N", "S">>, uri, request, env)
Builder_head(b, uri, request, env) == Builder_build(b, <<"H", "E", "A", "D">>, uri, request, env)
Builder_connect(b, uri, request, env) == Builder_build(b, <<"C", "O", "N", "N", "E", "C", "T">>, uri, request, env)
Builder_patch(b, uri, request, env) == Builder_build(b, <<"P", "A", "T", "C", "H">>, uri, request, env)
Builder_trace(b, uri, request, env) == Builder_build(b, <<"T", "R", "A", "C", "E">>, uri, request, env)

\* The free functions: a Builder made on the spot, its token set, consumed.
oauth_get(signature_method, uri, cl, tok, request, env) ==
    Builder_consume(Builder_token(Builder_new(cl, signature_method), tok), <<"G", "E", "T">>, uri,
                    request, env)

oauth_put(signature_method, uri, cl, tok, request, env) ==
    Builder_consume(Builder_token(Builder_new(cl, signature_method), tok), <<"P", "U", "T">>, uri,
                    request, env)

oauth_post(signature_method, uri, cl, tok, request, env) ==
    Builder_consume(Builder_token(Builder_new(cl, signature_method), tok), <<"P", "O", "S", "T">>, uri,
                    request, env)

oauth_delete(signature_method, uri, cl, tok, request, env) ==
    Builder_consume(Builder_token(Builder_new(cl, signature_method), tok), <<"D", "E", "L", "E", "T", "E">>, uri,
                    request, env)

oauth_options(signature_method, uri, cl, tok, request, env) ==
    Builder_consume(Builder_token(Builder_new(cl, signature_method), tok), <<"O", "P", "T", "I", "O", "N", "S">>, uri,
                    request, env)

oauth_head(signature_method, uri, cl, tok, request, env) ==
    Builder_consume(Builder_token(Builder_new(cl, signature_method), tok), <<"H", "E", "A", "D">>, uri,
                    request, env)

oauth_connect(signature_method, uri, cl, tok, request, env) ==
    Builder_consume(Builder_token(Builder_new(cl, signature_method), tok), <<"C", "O", "N", "N", "E", "C", "T">>, uri,
                    request, env)

oauth_patch(signature_method, uri, cl, tok, request, env) ==
    Builder_consume(Builder_token(Builder_new(cl, signature_method), tok), <<"P", "A", "T", "C", "H">>, uri,
                    request, env)

oauth_trace(signature_method, uri, cl, tok, request, env) ==
    Builder_consume(Builder_token(Builder_new(cl, signature_method), tok), <<"T", "R", "A", "C", "E">>, uri,
                    request, env)


\* The number of requests signed in one run.
MaxBuilds == 2

\* What the generator of nonces and the clock may yield.
Envs == {[nonce |-> FreshNonce, now |-> 7], [nonce |-> <<"s">>, now |-> 8]}

Requests == {[pre |-> <<Param(bar, Spaced, FALSE)>>, post |-> <<Param(zed, Plain, TRUE)>>]}

\* A method name given to build or consume by the caller.
CustomMethods == {<<"Q", "U", "E", "R", "Y">>}

\* A Builder as the mutators can have left it.
InitBuild ==
    /\ debug = TRUE
    /\ client \in Clients
    /\ token \in Tokens
    /\ options \in [callback : {None}, nonce : NonceArgs, timestamp : TimestampArgs,
                    verifier : {None}, version : {TRUE}]
    /\ ctor = [kind |-> "builder", uri |-> <<>>, signature_method |-> Plaintext]
    /\ auth = NoAuth
    /\ url = NoUrl
    /\ sign = NoSign
    /\ calls = <<>>
    /\ output = None
    /\ pc = "builder"

\* One signing call: its arguments and what it returned are recorded. The
\* caller signs with the Builder any number of times and may finish by
\* consuming it or by calling a free function, which needs no Builder.
Signed(op, method, uri, request, result, after) ==
    /\ pc = "builder"
    /\ Len(calls) < MaxBuilds
    /\ calls' = Append(calls, Call(op, [method |-> method, uri |-> uri, request |-> request],
                                   result))
    /\ output' = IF result.panicked THEN None ELSE Some(result.header)
    /\ pc' = IF result.panicked THEN "panicked" ELSE after
    /\ UNCHANGED <<debug, client, token, options, auth, url, sign, ctor>>

BuilderBuild ==
    \E m \in CustomMethods, r \in Requests, env \in Envs :
        Signed("build", m, Uri, r, Builder_build(TheBuilder, m, Uri, r, env), "builder")

BuilderConsume ==
    \E m \in CustomMethods, r \in Requests, env \in Envs :
        Signed("consume", m, Uri, r, Builder_consume(TheBuilder, m, Uri, r, env), "consumed")

BuilderGet ==
    \E r \in Requests, env \in Envs :
        Signed("get", <<>>, Uri, r, Builder_get(TheBuilder, Uri, r, env), "builder")

BuilderPut ==
    \E r \in Requests, env \in Envs :
        Signed("put", <<>>, Uri, r, Builder_put(TheBuilder, Uri, r, env), "builder")

BuilderPost ==
    \E r \in Requests, env \in Envs :
        Signed("post", <<>>, Uri, r, Builder_post(TheBuilder, Uri, r, env), "builder")

BuilderDelete ==
    \E r \in Requests, env \in Envs :
        Signed("delete", <<>>, Uri, r, Builder_delete(TheBuilder, Uri, r, env), "builder")

BuilderOptions ==
    \E r \in Requests, env \in Envs :
        Signed("options", <<>>, Uri, r, Builder_options(TheBuilder, Uri, r, env), "builder")

BuilderHead ==
    \E r \in Requests, env \in Envs :
        Signed("head", <<>>, Uri, r, Builder_head(TheBuilder, Uri, r, env), "builder")

BuilderConnect ==
    \E r \in Requests, env \in Envs :
        Signed("connect", <<>>, Uri, r, Builder_connect(TheBuilder, Uri, r, env), "builder")

BuilderPatch ==
    \E r \in Requests, env \in Envs :
        Signed("patch", <<>>, Uri, r, Builder_patch(TheBuilder, Uri, r, env), "builder")

BuilderTrace ==
    \E r \in Requests, env \in Envs :
        Signed("trace", <<>>, Uri, r, Builder_trace(TheBuilder, Uri, r, env), "builder")

FreeGet ==
    \E r \in Requests, env \in Envs :
        Signed("oauth::get", <<>>, Uri, r,
               oauth_get(ctor.signature_method, Uri, client, token, r, env), "done")

FreePut ==
    \E r \in Requests, env \in Envs :
        Signed("oauth::put", <<>>, Uri, r,
               oauth_put(ctor.signature_method, Uri, client, token, r, env), "done")

FreePost ==
    \E r \in Requests, env \in Envs :
        Signed("oauth::post", <<>>, Uri, r,
               oauth_post(ctor.signature_method, Uri, client, token, r, env), "done")

FreeDelete ==
    \E r \in Requests, env \in Envs :
        Signed("oauth::delete", <<>>, Uri, r,
               oauth_delete(ctor.signature_method, Uri, client, token, r, env), "done")

FreeOptions ==
    \E r \in Requests, env \in Envs :
        Signed("oauth::options", <<>>, Uri, r,
               oauth_options(ctor.signature_method, Uri, client, token, r, env), "done")

FreeHead ==
    \E r \in Requests, env \in Envs :
        Signed("oauth::head", <<>>, Uri, r,
               oauth_head(ctor.signature_method, Uri, client, token, r, env), "done")

FreeConnect ==
    \E r \in Requests, env \in Envs :
        Signed("oauth::connect", <<>>, Uri, r,
               oauth_connect(ctor.signature_method, Uri, client, token, r, env), "done")

FreePatch ==
    \E r \in Requests, env \in Envs :
        Signed("oauth::patch", <<>>, Uri, r,
               oauth_patch(ctor.signature_method, Uri, client, token, r, env), "done")

FreeTrace ==
    \E r \in Requests, env \in Envs :
        Signed("oauth::trace", <<>>, Uri, r,
               oauth_trace(ctor.signature_method, Uri, client, token, r, env), "done")

NextBuild ==
    \/ BuilderBuild
    \/ BuilderConsume
    \/ BuilderGet
    \/ BuilderPut
    \/ BuilderPost
    \/ BuilderDelete
    \/ BuilderOptions
    \/ BuilderHead
    \/ BuilderConnect
    \/ BuilderPatch
    \/ BuilderTrace
    \/ FreeGet
    \/ FreePut
    \/ FreePost
    \/ FreeDelete
    \/ FreeOptions
    \/ FreeHead
    \/ FreeConnect
    \/ FreePatch
    \/ FreeTrace

SpecBuild == InitBuild /\ [][NextBuild]_vars

\* The operations that sign with the Builder itself.
BuilderOps ==
    {"build", "consume", "get", "put", "post", "delete", "options", "head", "connect",
     "patch", "trace"}

\* Whether the options fix both the nonce and the timestamp.
Pinned(o) == o.nonce.some /\ o.timestamp.some

\* C13: with the nonce and the timestamp pinned in the options, two
\* invocations of Builder::build, or of one per-method operation, on the same
\* method, URI, credentials, options and request return the same header,
\* byte for byte, whatever nonce the generator and whatever time the clock
\* yield at each invocation; an invocation leaves the Builder as it was, so
\* an earlier one does not change what a later one returns.
C13_PinnedBuildIsDeterministic ==
    /\ [](Pinned(options) =>
            \A i, j \in DOMAIN calls :
                (calls[i].op \in BuilderOps /\ calls[i].op = calls[j].op
                 /\ calls[i].k = calls[j].k)
                    => calls[i].v.header = calls[j].v.header)
    /\ [](Pinned(options) =>
            \A i \in DOMAIN calls :
                calls[i].op = "build" =>
                    \A env \in Envs :
                        calls[i].v.header =
                            Builder_build(TheBuilder, calls[i].k.method, calls[i].k.uri,
                                          calls[i].k.request, env).header)
    /\ [][Called => /\ client' = client /\ token' = token /\ options' = options
                    /\ ctor' = ctor]_vars

C13_Witness ==
    /\ Pinned(options)
    /\ token.some
    /\ Len(calls) = 2
    /\ calls[1].op = "build" /\ calls[2].op = "build"
    /\ calls[1].k = calls[2].k
    /\ calls[1].v.header = calls[2].v.header
    /\ Contains(calls[2].v.header, oauth_nonce \o <<"=", DQ, "n", DQ>>)
    /\ Contains(calls[2].v.header, oauth_timestamp \o <<"=", DQ, "1", "2", DQ>>)

\* The method name each convenience operation signs with.
MethodOf(op) ==
    CASE op \in {"get", "oauth::get"} -> <<"G", "E", "T">>
      [] op \in {"put", "oauth::put"} -> <<"P", "U", "T">>
      [] op \in {"post", "oauth::post"} -> <<"P", "O", "S", "T">>
      [] op \in {"delete", "oauth::delete"} -> <<"D", "E", "L", "E", "T", "E">>
      [] op \in {"options", "oauth::options"} -> <<"O", "P", "T", "I", "O", "N", "S">>
      [] op \in {"head", "oauth::head"} -> <<"H", "E", "A", "D">>
      [] op \in {"connect", "oauth::connect"} -> <<"C", "O", "N", "N", "E", "C", "T">>
      [] op \in {"patch", "oauth::patch"} -> <<"P", "A", "T", "C", "H">>
      [] op \in {"trace", "oauth::trace"} -> <<"T", "R", "A", "C", "E">>

PerMethodOps ==
    {"get", "put", "post", "delete", "options", "head", "connect", "patch", "trace"}

FreeOps ==
    {"oauth::get", "oauth::put", "oauth::post", "oauth::delete", "oauth::options",
     "oauth::head", "oauth::connect", "oauth::patch", "oauth::trace"}

\* C17: get, put, post, delete, options, head, connect, patch and trace of
\* the Builder each return what build returns for the method name GET, PUT,
\* POST, DELETE, OPTIONS, HEAD, CONNECT, PATCH, TRACE (and that name is what
\* the Sign is given as the request method); the free operation of each name
\* returns what Builder::new(client, sm).token(token).consume(NAME, uri,
\* request) returns, the options being the default ones; and consume returns
\* what build returns on the same inputs, the same string whenever the
\* nonce and the timestamp are pinned. (Stated of the call made last: every
\* call of a run is the last one in the state it leads to.)
C17_ConvenienceOperations ==
    calls # <<>> =>
        LET c == Last(calls)
        IN  /\ c.op \in PerMethodOps =>
                /\ \E env \in Envs :
                       c.v = Builder_build(TheBuilder, MethodOf(c.op), c.k.uri, c.k.request, env)
                /\ c.v.sign_log[1] = SignCall("request_method", MethodOf(c.op), <<>>)
            /\ c.op \in FreeOps =>
                /\ \E env \in Envs :
                       c.v = Builder_consume(
                                 Builder_token(Builder_new(client, ctor.signature_method), token),
                                 MethodOf(c.op), c.k.uri, c.k.request, env)
                /\ c.v.sign_log[1] = SignCall("request_method", MethodOf(c.op), <<>>)
                /\ ~Contains(c.v.header, oauth_version)
                /\ ~Contains(c.v.header, oauth_nonce \o <<"=", DQ, "n", DQ>>)
            /\ c.op = "consume" =>
                /\ \E env \in Envs :
                       c.v = Builder_build(TheBuilder, c.k.method, c.k.uri, c.k.request, env)
                /\ Pinned(options) =>
                       \A env \in Envs :
                           c.v.header = Builder_build(TheBuilder, c.k.method, c.k.uri,
                                                      c.k.request, env).header

C17_Witness ==
    /\ Pinned(options)
    /\ options.version
    /\ Len(calls) = 2
    /\ calls[1].op = "put"
    /\ calls[1].v.sign_log[1].k = <<"P", "U", "T">>
    /\ calls[2].op = "oauth::patch"
    /\ calls[2].v.sign_log[1].k = <<"P", "A", "T", "C", "H">>
    /\ Contains(calls[1].v.header, oauth_version)

\* ------------------- one request given to an Authorizer and to an Urlencoder

\* Keys with a '=' and with a '&' in them, next to plain ones.
PairKeys == {<<"a", "=", "b">>, bar, <<"c", "&", "d">>, zed}
PairValues == {Plain, Spaced, <<"x", "=", "y">>}

\* to_form_urlencoded and to_uri_query hand the request an Urlencoder; the
\* Builder hands the same request an Authorizer.
InitPair ==
    /\ debug = TRUE
    /\ client \in Clients
    /\ token \in Tokens
    /\ options \in {o \in OptionsSet : ~o.callback.some /\ ~o.verifier.some /\ o.version}
    /\ auth = Authorizer_new(Plaintext, GET, Uri, client, token, options, FreshNonce, 7)
    /\ ctor \in {[kind |-> "form", uri |-> <<>>], [kind |-> "query", uri |-> Uri]}
    /\ url = IF ctor.kind = "form" THEN Urlencoder_form ELSE Urlencoder_query(ctor.uri)
    /\ sign = NoSign
    /\ calls = <<>>
    /\ output = None
    /\ pc = "pre"

PairCall(op, k, v, next_auth, next_url, after) ==
    /\ auth' = next_auth
    /\ url' = next_url
    /\ calls' = Append(calls, Call(op, k, v))
    /\ pc' = IF next_auth.panicked THEN "panicked" ELSE after
    /\ UNCHANGED <<debug, client, token, options, sign, ctor, output>>

PairParameter ==
    \E k \in PairKeys, v \in PairValues :
        /\ ReqMaySubmit(k)
        /\ PairCall("serialize_parameter", k, v, Authorizer_serialize_parameter(auth, k, v),
                    Urlencoder_serialize_parameter(url, k, v), pc)

PairParameterEncoded ==
    \E k \in PairKeys, v \in PairValues :
        /\ ReqMaySubmit(k)
        /\ PairCall("serialize_parameter_encoded", k, PercentEncode(v),
                    Authorizer_serialize_parameter_encoded(auth, k, PercentEncode(v)),
                    Urlencoder_serialize_parameter_encoded(url, k, PercentEncode(v)), pc)

PairOauthParameters ==
    /\ pc = "pre"
    /\ PairCall("serialize_oauth_parameters", <<>>, <<>>,
                Authorizer_serialize_oauth_parameters(auth),
                Urlencoder_serialize_oauth_parameters(url), "post")

PairEnd ==
    /\ pc = "post"
    /\ LET e == Authorizer_end(auth)
       IN  /\ auth' = [auth EXCEPT !.header = e.header, !.sign.log = e.sign_log]
           /\ output' = Some([header |-> e.header, data |-> Urlencoder_end(url)])
    /\ calls' = Append(calls, Call("end", <<>>, <<>>))
    /\ pc' = "ended"
    /\ UNCHANGED <<debug, client, token, options, url, sign, ctor>>

NextPair ==
    \/ PairParameter
    \/ PairParameterEncoded
    \/ PairOauthParameters
    \/ PairEnd

SpecPair == InitPair /\ [][NextPair]_vars

\* C14: from whatever state the serializer is in, serialize_parameter(k, raw)
\* and serialize_parameter_encoded(k, percent_encode(raw)) have the same
\* effect: on an Urlencoder, form or query, they append the same text to the
\* buffer; on an Authorizer they leave the same header (and feed the Sign the
\* same delimiter and parameter).
C14_EncodedEqualsRaw ==
    /\ [](pc \in {"pre", "post"} =>
            \A k \in PairKeys, raw \in PairValues :
                /\ Urlencoder_serialize_parameter_encoded(url, k, PercentEncode(raw))
                       = Urlencoder_serialize_parameter(url, k, raw)
                /\ Authorizer_serialize_parameter_encoded(auth, k, PercentEncode(raw))
                       = Authorizer_serialize_parameter(auth, k, raw))
    /\ [][(Called /\ Last(calls').op = "serialize_parameter") =>
              LET k == Last(calls').k
                  encoded == PercentEncode(Last(calls').v)
                  other == Urlencoder_serialize_parameter_encoded(url, k, encoded)
              IN  /\ SubSeq(url'.data, Len(url.data) + 1, Len(url'.data))
                         = SubSeq(other.data, Len(url.data) + 1, Len(other.data))
                  /\ url' = other
                  /\ auth'.header
                         = Authorizer_serialize_parameter_encoded(auth, k, encoded).header]_vars

C14_Witness ==
    /\ ctor.kind = "form"
    /\ pc = "ended"
    /\ Len(calls) = 4
    /\ calls[1] = Call("serialize_parameter", bar, Spaced)
    /\ calls[2] = Call("serialize_parameter_encoded", bar, PercentEncode(Spaced))
    /\ output.val.data = <<"b", "a", "r", "=", "a", "%", "2", "0", "%", "2", "6", "&", "b", "a", "r", "=", "a", "%", "2", "0", "%", "2", "6">>
    /\ Count(auth.sign.log,
             LAMBDA c : c = SignCall("parameter", bar, PercentEncode(PercentEncode(Spaced)))) = 2

\* The value of a hexadecimal digit, and the character of a byte.
HexValue(c) == (CHOOSE i \in DOMAIN HexDigits : HexDigits[i] = c) - 1
CharOf(byte) == Ascii[byte - 31]

\* Percent-decoding: %XX becomes the character of byte XX.
RECURSIVE PercentDecode(_)
PercentDecode(s) ==
    IF s = <<>> THEN <<>>
    ELSE IF /\ Head(s) = "%"
            /\ Len(s) >= 3
            /\ \A i \in {2, 3} : \E j \in DOMAIN HexDigits : HexDigits[j] = s[i]
    THEN <<CharOf(16 * HexValue(s[2]) + HexValue(s[3]))>> \o PercentDecode(SubSeq(s, 4, Len(s)))
    ELSE <<Head(s)>> \o PercentDecode(Tail(s))

\* The part of a piece after its first '=' (empty when it has none).
ValueOf(piece) == SubSeq(piece, Len(KeyOf(piece)) + 2, Len(piece))

\* application/x-www-form-urlencoded read back: the pieces between '&', each
\* split at its first '=', the value percent-decoded. An empty body has no
\* pieces.
ParseForm(data) ==
    IF data = <<>> THEN <<>>
    ELSE LET pieces == SplitOn(data, "&")
         IN  [i \in DOMAIN pieces |-> <<KeyOf(pieces[i]), PercentDecode(ValueOf(pieces[i]))>>]

\* The (key, value) pairs the request has submitted, in call order; the value
\* of a parameter submitted as already encoded is the text it encodes.
Submitted ==
    [i \in DOMAIN UserParams |->
        << UserParams[i].k,
           IF UserParams[i].op = "serialize_parameter" THEN UserParams[i].v
           ELSE PercentDecode(UserParams[i].v) >>]

SameMultiset(s, t) ==
    \A x \in {s[i] : i \in DOMAIN s} \cup {t[i] : i \in DOMAIN t} :
        Cardinality({i \in DOMAIN s : s[i] = x}) = Cardinality({i \in DOMAIN t : t[i] = x})

HasSeparator(k) == \E i \in DOMAIN k : k[i] \in {"&", "="}

\* C15 as stated: whatever the keys and values of the request are, reading
\* the output of to_form_urlencoded back recovers the multiset of the pairs
\* the request submitted.
C15_RoundTripAnyKey ==
    (pc = "ended" /\ ctor.kind = "form") =>
        SameMultiset(ParseForm(output.val.data), Submitted)

\* C15, amended: for every request whose keys contain neither '&' nor '='
\* (the Urlencoder writes a key as it is given, unencoded), splitting the
\* output of to_form_urlencoded at '&' and each piece at its first '=', and
\* percent-decoding the values, recovers the pairs the request submitted,
\* as a multiset and in the order of submission; the output of a request
\* without parameters is empty.
C15_RoundTrip ==
    (pc = "ended" /\ ctor.kind = "form"
     /\ \A i \in DOMAIN UserParams : ~HasSeparator(UserParams[i].k)) =>
        /\ SameMultiset(ParseForm(output.val.data), Submitted)
        /\ ParseForm(output.val.data) = Submitted
        /\ UserParams = <<>> => output.val.data = <<>>

C15_Witness ==
    /\ pc = "ended"
    /\ ctor.kind = "form"
    /\ Len(calls) = 4
    /\ calls[1] = Call("serialize_parameter", bar, <<"x", "=", "y">>)
    /\ calls[3] = Call("serialize_parameter_encoded", zed, <<"a", "%", "2", "0", "%", "2", "6">>)
    /\ output.val.data = <<"b", "a", "r", "=", "x", "%", "3", "D", "y", "&", "z", "=", "a", "%", "2", "0", "%", "2", "6">>
    /\ ParseForm(output.val.data) = << <<bar, <<"x", "=", "y">>>>, <<zed, Spaced>> >>

\* ------------------------------------------------- what the Sign is given

\* The calls a step has appended to the Sign's log.
NewSignCalls == SubSeq(auth'.sign.log, Len(auth.sign.log) + 1, Len(auth'.sign.log))

IsOauthKey(k) == Len(k) >= 6 /\ SubSeq(k, 1, 6) = <<"o", "a", "u", "t", "h", "_">>

\* The text between the double quotes of a header parameter.
Unquoted(piece) == SubSeq(ValueOf(piece), 2, Len(ValueOf(piece)) - 1)

\* The oauth_* parameters of the header, oauth_signature excepted, as
\* (key, value) pairs in the order written.
OauthInHeader ==
    LET ps == SelectSeq(HeaderParams(auth.header),
                        LAMBDA p : IsOauthKey(KeyOf(p)) /\ KeyOf(p) # oauth_signature)
    IN  [i \in DOMAIN ps |-> <<KeyOf(ps[i]), Unquoted(ps[i])>>]

\* The oauth_* parameters the Sign was fed, oauth_signature excepted.
OauthInSign ==
    LET cs == SelectSeq(auth.sign.log,
                        LAMBDA c : /\ c.op = "parameter"
                                   /\ IsOauthKey(c.k)
                                   /\ c.k # oauth_signature)
    IN  [i \in DOMAIN cs |-> <<cs[i].k, cs[i].v>>]

\* C19: under every combination of options and signature-method flags the
\* oauth_* parameters of the header (oauth_signature excepted) are the
\* oauth_* parameters fed to Sign.parameter, with the same values (the Sign
\* is given the value encoded once more: the header value is the encoding of
\* the value, the Sign's the encoding of that). A hook that has nothing to
\* emit leaves both the header and the Sign as they were.
C19_HeaderAndSignAgree ==
    /\ [](LET h == OauthInHeader
              s == OauthInSign
          IN  /\ Len(h) = Len(s)
              /\ \A i \in DOMAIN h :
                    /\ s[i][1] = h[i][1]
                    /\ s[i][2] = PercentEncode(h[i][2])
              /\ {h[i][1] : i \in DOMAIN h} = {s[i][1] : i \in DOMAIN s})
    /\ [][\A i \in DOMAIN HookOrder :
            (Called /\ Last(calls').op = HookOrder[i] /\ ~auth'.panicked) =>
                IF Applicable(i)
                THEN /\ Last(HeaderKeys(auth'.header)) = HookKeys[i]
                     /\ Last(auth'.sign.log).k = HookKeys[i]
                ELSE /\ auth'.header = auth.header
                     /\ auth'.sign = auth.sign]_vars

C19_Witness ==
    /\ ~Sign_use_nonce(auth.sign.inner)
    /\ ~Sign_use_timestamp(auth.sign.inner)
    /\ ~options.version
    /\ options.callback.some /\ token.some /\ ~options.verifier.some
    /\ Len(calls) = 2
    /\ calls[1].op = "serialize_oauth_nonce"
    /\ calls[2].op = "serialize_oauth_parameters"
    /\ ~auth.panicked
    /\ Len(OauthInHeader) = 4
    /\ OauthInHeader[1] = <<oauth_callback, <<"c", "%", "3", "A">>>>
    /\ OauthInSign[1] = <<oauth_callback, <<"c", "%", "2", "5", "3", "A">>>>
    /\ OauthInSign[4][1] = oauth_token

\* ------------------------------------------------------------- HMAC-SHA256

\* The bytes of a text.
RECURSIVE Bytes(_)
Bytes(text) == IF text = <<>> THEN <<>> ELSE <<ByteOf[Head(text)]>> \o Bytes(Tail(text))

\* Bitwise operations on the low n bits of two naturals.
RECURSIVE BitXor(_, _, _)
BitXor(a, b, n) ==
    IF n = 0 THEN 0 ELSE ((a + b) % 2) + 2 * BitXor(a \div 2, b \div 2, n - 1)

RECURSIVE BitAnd(_, _, _)
BitAnd(a, b, n) ==
    IF n = 0 THEN 0 ELSE ((a % 2) * (b % 2)) + 2 * BitAnd(a \div 2, b \div 2, n - 1)

\* A 32-bit word is kept as its two 16-bit halves <<high, low>>.
Xor32(x, y) == <<BitXor(x[1], y[1], 16), BitXor(x[2], y[2], 16)>>
And32(x, y) == <<BitAnd(x[1], y[1], 16), BitAnd(x[2], y[2], 16)>>
Not32(x) == <<65535 - x[1], 65535 - x[2]>>
Add32(x, y) ==
    <<(x[1] + y[1] + ((x[2] + y[2]) \div 65536)) % 65536, (x[2] + y[2]) % 65536>>

RotR(x, n) ==
    LET w == IF n >= 16 THEN <<x[2], x[1]>> ELSE x
        m == n % 16
    IN  IF m = 0 THEN w
        ELSE << (w[1] \div 2^m) + (w[2] % 2^m) * 2^(16 - m),
                (w[2] \div 2^m) + (w[1] % 2^m) * 2^(16 - m) >>

\* Right shift by n < 16.
ShR(x, n) == << x[1] \div 2^n, (x[2] \div 2^n) + (x[1] % 2^n) * 2^(16 - n) >>

\* SHA-256 (FIPS 180-4), the hash behind hmac_sha256::Hash.
InitialHash ==
    <<
       <<27145, 58983>>, <<47975, 44677>>, <<15470, 62322>>, <<42319, 62778>>,
       <<20750, 21119>>, <<39685, 26764>>, <<8067, 55723>>, <<23520, 52505>> >>

RoundConstants ==
    <<
       <<17034, 12184>>, <<28983, 17553>>, <<46528, 64463>>, <<59829, 56229>>,
       <<14678, 49755>>, <<23025, 4593>>, <<37439, 33444>>, <<43804, 24277>>,
       <<55303, 43672>>, <<4739, 23297>>, <<9265, 34238>>, <<21772, 32195>>,
       <<29374, 23924>>, <<32990, 45566>>, <<39900, 1703>>, <<49563, 61812>>,
       <<58523, 27073>>, <<61374, 18310>>, <<4033, 40390>>, <<9228, 41420>>,
       <<11753, 11375>>, <<19060, 33962>>, <<23728, 43484>>, <<30457, 35034>>,
       <<38974, 20818>>, <<43057, 50797>>, <<45059, 10184>>, <<48985, 32711>>,
       <<50912, 3059>>, <<54695, 37191>>, <<1738, 25425>>, <<5161, 10599>>,
       <<10167, 2693>>, <<11803, 8504>>, <<19756, 28156>>, <<21304, 3347>>,
       <<25866, 29524>>, <<30314, 2747>>, <<33218, 51502>>, <<37490, 11397>>,
       <<41663, 59553>>, <<43034, 26187>>, <<49739, 35696>>, <<51052, 20899>>,
       <<53650, 59417>>, <<54937, 1572>>, <<62478, 13701>>, <<4202, 41072>>,
       <<6564, 49430>>, <<7735, 27656>>, <<10056, 30540>>, <<13488, 48309>>,
       <<14620, 3251>>, <<20184, 43594>>, <<23452, 51791>>, <<26670, 28659>>,
       <<29839, 33518>>, <<30885, 25455>>, <<33992, 30740>>, <<36039, 520>>,
       <<37054, 65530>>, <<42064, 27883>>, <<48889, 41975>>, <<50801, 30962>> >>

Ch(x, y, z) == Xor32(And32(x, y), And32(Not32(x), z))
Maj(x, y, z) == Xor32(Xor32(And32(x, y), And32(x, z)), And32(y, z))
BigSigma0(x) == Xor32(Xor32(RotR(x, 2), RotR(x, 13)), RotR(x, 22))
BigSigma1(x) == Xor32(Xor32(RotR(x, 6), RotR(x, 11)), RotR(x, 25))
SmallSigma0(x) == Xor32(Xor32(RotR(x, 7), RotR(x, 18)), ShR(x, 3))
SmallSigma1(x) == Xor32(Xor32(RotR(x, 17), RotR(x, 19)), ShR(x, 10))

\* Message padding: 0x80, zeros up to 56 mod 64, the bit length on 8 bytes.
Padded(msg) ==
    msg \o <<128>> \o [i \in 1..((119 - (Len(msg) % 64)) % 64) |-> 0]
        \o <<0, 0, 0, 0, 0, (Len(msg) * 8) \div 65536,
             ((Len(msg) * 8) \div 256) % 256, (Len(msg) * 8) % 256>>

\* The sixteen big-endian words of a 64-byte block.
BlockWords(block) ==
    [t \in 1..16 |-> << block[4 * t - 3] * 256 + block[4 * t - 2],
                        block[4 * t - 1] * 256 + block[4 * t] >>] \o <<>>

\* The message schedule, from sixteen words to sixty-four.
RECURSIVE Schedule(_)
Schedule(w) ==
    IF Len(w) = 64 THEN w
    ELSE LET t == Len(w) + 1
         IN  Schedule(Append(w, Add32(Add32(SmallSigma1(w[t - 2]), w[t - 7]),
                                      Add32(SmallSigma0(w[t - 15]), w[t - 16]))))

\* One round on the working variables <<a, b, c, d, e, f, g, h>>.
Round(s, k, w) ==
    LET t1 == Add32(Add32(Add32(s[8], BigSigma1(s[5])), Add32(Ch(s[5], s[6], s[7]), k)), w)
        t2 == Add32(BigSigma0(s[1]), Maj(s[1], s[2], s[3]))
    IN  <<Add32(t1, t2), s[1], s[2], s[3], Add32(s[4], t1), s[5], s[6], s[7]>>

\* The working variables before the first round and after each of the 64.
RECURSIVE Rounds(_, _)
Rounds(trace, w) ==
    IF Len(trace) = 65 THEN trace
    ELSE Rounds(Append(trace, Round(trace[Len(trace)], RoundConstants[Len(trace)],
                                    w[Len(trace)])), w)

Compress(h, block) ==
    LET s == Rounds(<<h>>, Schedule(BlockWords(block)))[65]
    IN  <<Add32(h[1], s[1]), Add32(h[2], s[2]), Add32(h[3], s[3]), Add32(h[4], s[4]),
          Add32(h[5], s[5]), Add32(h[6], s[6]), Add32(h[7], s[7]), Add32(h[8], s[8])>>

RECURSIVE Blocks(_, _)
Blocks(h, padded) ==
    IF padded = <<>> THEN h
    ELSE Blocks(Compress(h, SubSeq(padded, 1, 64)), SubSeq(padded, 65, Len(padded)))

WordBytes(x) == <<x[1] \div 256, x[1] % 256, x[2] \div 256, x[2] % 256>>

\* The 32-byte digest of a byte sequence.
Sha256(msg) ==
    LET h == Blocks(InitialHash, Padded(msg))
    IN  WordBytes(h[1]) \o WordBytes(h[2]) \o WordBytes(h[3]) \o WordBytes(h[4])
            \o WordBytes(h[5]) \o WordBytes(h[6]) \o WordBytes(h[7]) \o WordBytes(h[8])

\* HMAC (RFC 2104) with SHA-256: H((K xor opad) || H((K xor ipad) || text)),
\* the key hashed first when longer than a block, then zero-filled to 64.
HmacSha256Mac(key, text) ==
    LET k0 == IF Len(key) > 64 THEN Sha256(key) ELSE key
        k == k0 \o [i \in 1..(64 - Len(k0)) |-> 0]
        ipad == [i \in 1..64 |-> BitXor(k[i], 54, 8)] \o <<>>
        opad == [i \in 1..64 |-> BitXor(k[i], 92, 8)] \o <<>>
    IN  Sha256(opad \o Sha256(ipad \o text))

\* Base64, standard alphabet, padded with '='.
Base64Alphabet ==
    SubSeq(Ascii, 34, 59) \o SubSeq(Ascii, 66, 91) \o SubSeq(Ascii, 17, 26) \o <<"+", "/">>

RECURSIVE Base64(_)
Base64(bytes) ==
    IF bytes = <<>> THEN <<>>
    ELSE LET b1 == bytes[1]
             b2 == IF Len(bytes) >= 2 THEN bytes[2] ELSE 0
             b3 == IF Len(bytes) >= 3 THEN bytes[3] ELSE 0
         IN  << Base64Alphabet[(b1 \div 4) + 1],
                Base64Alphabet[(b1 % 4) * 16 + (b2 \div 16) + 1],
                IF Len(bytes) >= 2 THEN Base64Alphabet[(b2 % 16) * 4 + (b3 \div 64) + 1]
                ELSE "=",
                IF Len(bytes) >= 3 THEN Base64Alphabet[(b3 % 64) + 1] ELSE "=" >>
                 \o Base64(SubSeq(bytes, 4, Len(bytes)))

\* Base64PercentEncodeDisplay: the digest as base64, percent-encoded.
Base64PercentEncodeDisplay(digest) == PercentEncode(Base64(digest))

\* hmac_sha256::Hash, a streaming SHA-256: new() starts with nothing hashed,
\* update() hashes more input, finalize() returns the digest of all of it.
Hash_new == <<>>
Hash_update(h, input) == h \o input
Hash_finalize(h) == Sha256(h)

\* SigningKey wraps the hasher; write() feeds the key text to it as input and
\* into_hmac() hands out the same hasher.
SigningKey_new == Hash_new
SigningKey_write(key, input) == Hash_update(key, input)
SigningKey_into_hmac(key) == key

\* UpdateSign: the signature base string written to the hasher piece by
\* piece: METHOD "&", encode(URI) "&", then encode(key) "%3D" value per
\* parameter and "%26" per delimiter.
UpdateSign_request_method(u, method) == Hash_update(u, Bytes(method \o <<"&">>))
UpdateSign_uri(u, uri) == Hash_update(u, Bytes(PercentEncode(uri) \o <<"&">>))
UpdateSign_parameter(u, key, value) ==
    Hash_update(u, Bytes(key \o <<"%", "3", "D">> \o value))
UpdateSign_delimiter(u) == Hash_update(u, Bytes(<<"%", "2", "6">>))

\* HmacSha256::sign_with
HmacSha256_sign_with(client_secret, token_secret) ==
    [inner |-> SigningKey_into_hmac(
                   SigningKey_write(SigningKey_new,
                                    Bytes(write_signing_key(client_secret, token_secret))))]

HmacSha256Sign_get_signature_method_name ==
    <<"H", "M", "A", "C", "-", "S", "H", "A", "2", "5", "6">>
HmacSha256Sign_request_method(s, method) ==
    [s EXCEPT !.inner = UpdateSign_request_method(@, method)]
HmacSha256Sign_uri(s, uri) == [s EXCEPT !.inner = UpdateSign_uri(@, uri)]
HmacSha256Sign_parameter(s, key, value) ==
    [s EXCEPT !.inner = UpdateSign_parameter(@, key, value)]
HmacSha256Sign_delimiter(s) == [s EXCEPT !.inner = UpdateSign_delimiter(@)]
HmacSha256Sign_end(s) == Base64PercentEncodeDisplay(Hash_finalize(s.inner))

\* ------------------------------------------- a caller of the HMAC-SHA256 Sign

\* The number of delimiter() and parameter() calls before end().
MaxHmacCalls == 3

POST == <<"P", "O", "S", "T">>
HmacMethods == {GET, POST}
\* Parameters as the Authorizer hands them over: the key encoded once, the
\* value twice.
HmacParameters ==
    { <<PercentEncode(bar), PercentEncode(PercentEncode(Plain))>>,
      <<PercentEncode(zed), PercentEncode(PercentEncode(Spaced))>> }

InitHmac ==
    /\ debug = FALSE
    /\ client \in Clients
    /\ token \in Tokens
    /\ options = NoAuth.options
    /\ auth = NoAuth
    /\ url = NoUrl
    /\ sign = HmacSha256_sign_with(client.secret,
                                   IF token.some THEN Some(token.val.secret) ELSE None)
    /\ ctor = [kind |-> "hmac", uri |-> Uri]
    /\ calls = <<>>
    /\ output = None
    /\ pc = "new"

HmacCall(at, op, k, v, next, after) ==
    /\ pc = at
    /\ sign' = next
    /\ calls' = Append(calls, SignCall(op, k, v))
    /\ pc' = after
    /\ UNCHANGED <<debug, client, token, options, auth, url, ctor, output>>

HmacRequestMethod ==
    \E m \in HmacMethods :
        HmacCall("new", "request_method", m, <<>>,
                 HmacSha256Sign_request_method(sign, m), "method")

HmacUri ==
    HmacCall("method", "uri", ctor.uri, <<>>, HmacSha256Sign_uri(sign, ctor.uri), "open")

HmacDelimiter ==
    /\ Len(calls) < 2 + MaxHmacCalls
    /\ HmacCall("open", "delimiter", <<>>, <<>>, HmacSha256Sign_delimiter(sign), "open")

HmacParameter ==
    /\ Len(calls) < 2 + MaxHmacCalls
    /\ \E p \in HmacParameters :
           HmacCall("open", "parameter", p[1], p[2],
                    HmacSha256Sign_parameter(sign, p[1], p[2]), "open")

HmacEnd ==
    /\ pc = "open"
    /\ output' = Some(HmacSha256Sign_end(sign))
    /\ calls' = Append(calls, SignCall("end", <<>>, <<>>))
    /\ pc' = "ended"
    /\ UNCHANGED <<debug, client, token, options, auth, url, sign, ctor>>

NextHmac ==
    \/ HmacRequestMethod
    \/ HmacUri
    \/ HmacDelimiter
    \/ HmacParameter
    \/ HmacEnd

SpecHmac == InitHmac /\ [][NextHmac]_vars

\* The signing key of the run, and the signature base string its calls fed.
HmacKey ==
    write_signing_key(client.secret, IF token.some THEN Some(token.val.secret) ELSE None)

RECURSIVE BaseString(_)
BaseString(cs) ==
    IF cs = <<>> THEN <<>>
    ELSE LET c == Head(cs)
         IN  (CASE c.op = "request_method" -> c.k \o <<"&">>
                [] c.op = "uri" -> PercentEncode(c.k) \o <<"&">>
                [] c.op = "parameter" -> c.k \o <<"%", "3", "D">> \o c.v
                [] c.op = "delimiter" -> <<"%", "2", "6">>
                [] c.op = "end" -> <<>>)
             \o BaseString(Tail(cs))

\* C16 as stated: the signature that end() yields is the HMAC-SHA256, keyed
\* with the signing key of sign_with, of the signature base string fed
\* through request_method, uri, delimiter and parameter: the 32-byte MAC as
\* base64, percent-encoded.
C16_SignatureIsHmac ==
    pc = "ended" =>
        output.val = Base64PercentEncodeDisplay(
                         HmacSha256Mac(Bytes(HmacKey), Bytes(BaseString(calls))))

\* C16, what the code yields: a 32-byte digest as base64, percent-encoded,
\* but the digest is the plain SHA-256 of the signing key followed by the
\* base string; for client secret "cs", no token, GET and u/ it is
\* SHA-256("cs&GET&u%2F&") and not the HMAC.
C16_Witness ==
    /\ pc = "ended"
    /\ ~token.some
    /\ Len(calls) = 3
    /\ calls[1].k = GET
    /\ BaseString(calls) = <<"G", "E", "T", "&", "u", "%", "2", "F", "&">>
    /\ output.val = Base64PercentEncodeDisplay(Sha256(Bytes(HmacKey \o BaseString(calls))))
    /\ output.val = <<"h", "0", "z", "w", "7", "J", "x", "5", "H", "H", "I", "i", "g", "u", "e", "H", "6", "i", "C", "8", "7", "U", "k", "d", "M", "s", "f", "R", "x", "v", "4", "h", "B", "%", "2", "B", "r", "B", "c", "Q", "e", "a", "2", "T", "k", "%", "3", "D">>
    /\ Base64PercentEncodeDisplay(HmacSha256Mac(Bytes(HmacKey), Bytes(BaseString(calls))))
           = <<"X", "q", "B", "y", "P", "x", "N", "W", "c", "I", "Z", "o", "n", "P", "R", "y", "7", "3", "u", "f", "F", "g", "Z", "x", "2", "T", "p", "b", "f", "j", "3", "L", "%", "2", "F", "P", "X", "O", "H", "S", "H", "X", "B", "T", "s", "%", "3", "D">>

====
